---- MODULE Spec2Model ----
(***************************************************************************)
(* Model of the colour-analysis pipeline of the anemia detection app       *)
(* (src/src/components/pages/AnalysisPage.tsx): analyzeAnemiaFromImage and *)
(* the pure functions it calls (isSkinPixel, calculatePallorIndex,         *)
(* estimateHemoglobin, assessAnemiaRisk, getDefaultResult).                *)
(*                                                                         *)
(* Numbers.  The code computes with IEEE doubles; the model computes with  *)
(* exact rationals [n |-> numerator, d |-> denominator], kept in lowest    *)
(* terms with d > 0, so that equal numbers are equal records.  Math.round  *)
(* is floor(x + 1/2), as in ECMAScript.                                    *)
(*                                                                         *)
(* Several specifications share the module:                                *)
(*   Spec            one invocation of analyzeAnemiaFromImage on an image  *)
(*                   drawn from a bounded set of rasters and load outcomes *)
(*   SpecHemoglobin  estimateHemoglobin applied to bounded inputs          *)
(*   SpecRisk        assessAnemiaRisk applied to bounded inputs            *)
(*   SpecLoop        one invocation on rasters of a small palette that are *)
(*                   longer than the sampling stride                       *)
(*   SpecCalls       two invocations of analyzeAnemiaFromImage whose image *)
(*                   loads complete in either order                        *)
(*   SpecValidate    validateSkinImage applied to the answers the external *)
(*                   validator can give                                    *)
(*   SpecPage        the analysis page: image selection, runAnalysis and   *)
(*                   resetAnalysis                                         *)
(*   SpecPageFair    SpecPage with the steps of a run that the event loop  *)
(*                   takes weakly fair                                     *)
(*   SpecSkin        isSkinPixel applied to a grid of colours              *)
(*   SpecGradCam     generateGradCAM applied to canvas sizes and lists of  *)
(*                   focus areas                                           *)
(*   SpecPallor      calculatePallorIndex applied to a grid of averages    *)
(*   SpecTier        estimateHemoglobin and assessAnemiaRisk applied one   *)
(*                   after the other, as the pipeline does                 *)
(*   SpecAverages    one invocation on rasters whose two sampled pixels    *)
(*                   are a colour of a grid and a skin tone                *)
(*   SpecApp         the application shell: AuthProvider, the Firebase     *)
(*                   auth-state listener, Router, Navigation and the       *)
(*                   handlers of AuthPage                                  *)
(*   SpecSample      one iteration of the sampling loop applied to an      *)
(*                   accumulator and a pixel                               *)
(***************************************************************************)
EXTENDS Integers, Sequences, FiniteSets, TLC

VARIABLES
    img,     \* the image behind imageData: load outcome and decoded raster
    pc,      \* position of the invocation: "loading", "resolved", "uncaught"
    acc,     \* the accumulator of the sampling loop (locals of img.onload)
    result,  \* the value the promise resolved with, or NoResult
    hb,      \* last application of estimateHemoglobin: inputs and output
    risk,    \* last application of assessAnemiaRisk: inputs and output
    calls,   \* two invocations of analyzeAnemiaFromImage in flight together
    now,     \* the clock that new Date() reads, in ticks
    skin,    \* an application of isSkinPixel: arguments and return value
    sample,  \* an iteration of the sampling loop: accumulator before and after
    pallor,  \* an application of calculatePallorIndex: arguments and value
    cam,     \* an application of generateGradCAM: arguments and drawn cells
    validation,  \* a call of validateSkinImage: the answer and how it settled
    page,    \* the React state of AnalysisPage
    run,     \* the invocation of runAnalysis: position, captured image, what
             \* the validator returned and what was analysed
    readers, \* the files whose FileReader load has not completed
    auth,    \* the state of AuthProvider, of the session storage and of the
             \* Firebase client, with the operations in flight
    router   \* the state of Router

\* The variables of the specifications added after the first three; each
\* action of another specification leaves them unchanged.
callVars == <<calls, now>>

fnVars == <<skin, sample, pallor, cam>>

pageVars == <<page, run, readers>>

appVars == <<auth, router>>

more == <<callVars, fnVars, validation, pageVars, appVars>>

vars == <<img, pc, acc, result, hb, risk, more>>

----------------------------------------------------------------------------
(* Bounds of the model *)

\* Longest raster, in pixels (so that the sampling stride is exercised).
MaxPixels == 5
\* Longest raster combined with a failing load outcome.
MaxFailPixels == 1
\* pallorIndex inputs of the pure functions: k/PDen for k in 0..PDen.
PDen == 10
\* hemoglobin inputs of assessAnemiaRisk: k/HDen between 7 and 13.
HDen == 1
\* jitter values (Math.random()): k/GDen for k in 0..GDen-1.
GDen == 2
\* red-channel inputs of estimateHemoglobin: multiples of 255/RSteps.
RSteps == 8

----------------------------------------------------------------------------
(* Exact rational arithmetic *)

Abs(x) == IF x < 0 THEN -x ELSE x

RECURSIVE GCD(_, _)
GCD(a, b) == IF b = 0 THEN a ELSE GCD(b, a % b)

LCM(a, b) == (a \div GCD(a, b)) * b

\* n/d in lowest terms, d > 0.
Rat(n, d) ==
    LET s == IF d < 0 THEN -1 ELSE 1
        g == GCD(Abs(n), Abs(d))
    IN  [n |-> (s * n) \div g, d |-> (s * d) \div g]

RInt(k) == [n |-> k, d |-> 1]

RatAdd(a, b) ==
    LET l == LCM(a.d, b.d)
    IN  Rat(a.n * (l \div a.d) + b.n * (l \div b.d), l)

RatNeg(a) == [n |-> -a.n, d |-> a.d]

RatSub(a, b) == RatAdd(a, RatNeg(b))

RatMul(a, b) ==
    LET g1 == GCD(Abs(a.n), b.d)
        g2 == GCD(Abs(b.n), a.d)
    IN  Rat((a.n \div g1) * (b.n \div g2), (a.d \div g2) * (b.d \div g1))

\* a / k for an integer k > 0.
RatDivInt(a, k) == RatMul(a, [n |-> 1, d |-> k])

RatLt(a, b) == a.n * b.d < b.n * a.d
RatLe(a, b) == a.n * b.d <= b.n * a.d
RatGt(a, b) == RatLt(b, a)
RatGe(a, b) == RatLe(b, a)

RatMax(a, b) == IF RatLt(a, b) THEN b ELSE a
RatMin(a, b) == IF RatLt(b, a) THEN b ELSE a
RatAbs(a) == [n |-> Abs(a.n), d |-> a.d]

\* Math.round: the integer nearest to a, halves rounded up.
MathRound(a) == (2 * a.n + a.d) \div (2 * a.d)

\* Math.round(a * k) / k
RoundTo(a, k) == Rat(MathRound(RatMul(a, RInt(k))), k)

\* The % operator of the language on a rational and a positive integer:
\* a - m * trunc(a / m), with the sign of a.
RatRem(a, m) ==
    LET q == Abs(a.n) \div (a.d * m)
        t == IF a.n < 0 THEN -q ELSE q
    IN  RatSub(a, RInt(m * t))

----------------------------------------------------------------------------
(* estimateHemoglobin *)

\* Mutant: the pallor reduction factor 6.0 written as 10.0.
estimateHemoglobinSteep(r, g, b, pallorIndex) ==
    LET baseHemoglobin == RInt(14)
        redContribution == RatMul(RatDivInt(r, 255), RInt(4))
        pallorReduction == RatMul(pallorIndex, RInt(10))
        estimated == RatSub(RatAdd(baseHemoglobin, redContribution), pallorReduction)
    IN  RatMax(RInt(4), RatMin(RInt(18), estimated))

\* Mutant: the lower clamp Math.max(4.0, ...) dropped.
estimateHemoglobinNoFloor(r, g, b, pallorIndex) ==
    LET baseHemoglobin == RInt(14)
        redContribution == RatMul(RatDivInt(r, 255), RInt(4))
        pallorReduction == RatMul(pallorIndex, RInt(6))
        estimated == RatSub(RatAdd(baseHemoglobin, redContribution), pallorReduction)
    IN  RatMin(RInt(18), estimated)

\* Mutant: the base level 14.0 written as 11.0.
estimateHemoglobinLowBase(r, g, b, pallorIndex) ==
    LET baseHemoglobin == RInt(11)
        redContribution == RatMul(RatDivInt(r, 255), RInt(4))
        pallorReduction == RatMul(pallorIndex, RInt(6))
        estimated == RatSub(RatAdd(baseHemoglobin, redContribution), pallorReduction)
    IN  RatMax(RInt(4), RatMin(RInt(18), estimated))

estimateHemoglobin(r, g, b, pallorIndex) ==
    LET baseHemoglobin == RInt(14)
        redContribution == RatMul(RatDivInt(r, 255), RInt(4))
        pallorReduction == RatMul(pallorIndex, RInt(6))
        estimated == RatSub(RatAdd(baseHemoglobin, redContribution), pallorReduction)
    IN  RatMax(RInt(4), RatMin(RInt(18), estimated))

----------------------------------------------------------------------------
(* isSkinPixel *)

Max3(a, b, c) == IF a >= b /\ a >= c THEN a ELSE IF b >= c THEN b ELSE c
Min3(a, b, c) == IF a <= b /\ a <= c THEN a ELSE IF b <= c THEN b ELSE c

\* Hue in degrees, in [0, 360).
skinHue(r, g, b) ==
    LET max == Max3(r, g, b)
        min == Min3(r, g, b)
        delta == max - min
        h == IF delta = 0 THEN RInt(0)
             ELSE IF max = r THEN RatRem(Rat(g - b, delta), 6)
             ELSE IF max = g THEN RatAdd(Rat(b - r, delta), RInt(2))
             ELSE RatAdd(Rat(r - g, delta), RInt(4))
    IN  RatRem(RatAdd(RatMul(h, RInt(60)), RInt(360)), 360)

\* Mutant: the hue range [0, 25] widened to [0, 30].
isSkinPixelWideHue(r, g, b) ==
    LET max == Max3(r, g, b)
        min == Min3(r, g, b)
        delta == max - min
        h == skinHue(r, g, b)
        s == IF max = 0 THEN RInt(0) ELSE Rat(delta, max)
        v == Rat(max, 255)
        skinHueRange1 == RatGe(h, RInt(0)) /\ RatLe(h, RInt(30))
        skinHueRange2 == RatGe(h, RInt(340)) /\ RatLe(h, RInt(360))
        skinSatRange == RatGe(s, Rat(15, 100)) /\ RatLe(s, Rat(68, 100))
        skinValRange == RatGe(v, Rat(35, 100)) /\ RatLe(v, Rat(95, 100))
        rgbCheck == /\ r > 95 /\ g > 40 /\ b > 20
                    /\ max - min > 15
                    /\ Abs(r - g) > 15 /\ r > g /\ r > b
    IN  IF (skinHueRange1 \/ skinHueRange2) /\ skinSatRange /\ skinValRange /\ rgbCheck
        THEN Rat(9, 10)
        ELSE IF rgbCheck THEN Rat(7, 10)
        ELSE IF (skinHueRange1 \/ skinHueRange2) /\ skinSatRange THEN Rat(5, 10)
        ELSE RInt(0)

rgbSkinCheck(r, g, b) ==
    /\ r > 95 /\ g > 40 /\ b > 20
    /\ Max3(r, g, b) - Min3(r, g, b) > 15
    /\ Abs(r - g) > 15 /\ r > g /\ r > b

\* Mutant: the low-confidence branch returns the medium score.
isSkinPixelLowAsMedium(r, g, b) ==
    LET max == Max3(r, g, b)
        min == Min3(r, g, b)
        delta == max - min
        h == skinHue(r, g, b)
        s == IF max = 0 THEN RInt(0) ELSE Rat(delta, max)
        v == Rat(max, 255)
        skinHueRange1 == RatGe(h, RInt(0)) /\ RatLe(h, RInt(25))
        skinHueRange2 == RatGe(h, RInt(340)) /\ RatLe(h, RInt(360))
        skinSatRange == RatGe(s, Rat(15, 100)) /\ RatLe(s, Rat(68, 100))
        skinValRange == RatGe(v, Rat(35, 100)) /\ RatLe(v, Rat(95, 100))
    IN  IF (skinHueRange1 \/ skinHueRange2) /\ skinSatRange /\ skinValRange
           /\ rgbSkinCheck(r, g, b)
        THEN Rat(9, 10)
        ELSE IF rgbSkinCheck(r, g, b) THEN Rat(7, 10)
        ELSE IF (skinHueRange1 \/ skinHueRange2) /\ skinSatRange THEN Rat(7, 10)
        ELSE RInt(0)

isSkinPixel(r, g, b) ==
    LET max == Max3(r, g, b)
        min == Min3(r, g, b)
        delta == max - min
        h == skinHue(r, g, b)
        s == IF max = 0 THEN RInt(0) ELSE Rat(delta, max)
        v == Rat(max, 255)
        skinHueRange1 == RatGe(h, RInt(0)) /\ RatLe(h, RInt(25))
        skinHueRange2 == RatGe(h, RInt(340)) /\ RatLe(h, RInt(360))
        skinSatRange == RatGe(s, Rat(15, 100)) /\ RatLe(s, Rat(68, 100))
        skinValRange == RatGe(v, Rat(35, 100)) /\ RatLe(v, Rat(95, 100))
    IN  IF (skinHueRange1 \/ skinHueRange2) /\ skinSatRange /\ skinValRange
           /\ rgbSkinCheck(r, g, b)
        THEN Rat(9, 10)
        ELSE IF rgbSkinCheck(r, g, b) THEN Rat(7, 10)
        ELSE IF (skinHueRange1 \/ skinHueRange2) /\ skinSatRange THEN Rat(5, 10)
        ELSE RInt(0)

----------------------------------------------------------------------------
(* calculatePallorIndex *)

\* Mutant: the colour balance added instead of its complement.
calculatePallorIndexBalance(r, g, b, brightness) ==
    LET redDeficiency == RatMax(RInt(0), RatDivInt(RatSub(RInt(200), r), 200))
        overallPaleness == RatMax(RInt(0), RatDivInt(RatSub(RInt(220), brightness), 220))
        colorBalance == RatDivInt(RatAbs(RatSub(r, g)), 255)
    IN  RatAdd(RatAdd(RatMul(redDeficiency, Rat(5, 10)),
                      RatMul(overallPaleness, Rat(3, 10))),
               RatMul(colorBalance, Rat(2, 10)))

\* Mutant: the colour balance taken between red and blue.
calculatePallorIndexBlue(r, g, b, brightness) ==
    LET redDeficiency == RatMax(RInt(0), RatDivInt(RatSub(RInt(200), r), 200))
        overallPaleness == RatMax(RInt(0), RatDivInt(RatSub(RInt(220), brightness), 220))
        colorBalance == RatDivInt(RatAbs(RatSub(r, b)), 255)
    IN  RatAdd(RatAdd(RatMul(redDeficiency, Rat(5, 10)),
                      RatMul(overallPaleness, Rat(3, 10))),
               RatMul(RatSub(RInt(1), colorBalance), Rat(2, 10)))

\* Mutant: Math.max(0, ...) dropped from the red deficiency.
calculatePallorIndexNoFloor(r, g, b, brightness) ==
    LET redDeficiency == RatDivInt(RatSub(RInt(200), r), 200)
        overallPaleness == RatMax(RInt(0), RatDivInt(RatSub(RInt(220), brightness), 220))
        colorBalance == RatDivInt(RatAbs(RatSub(r, g)), 255)
    IN  RatAdd(RatAdd(RatMul(redDeficiency, Rat(5, 10)),
                      RatMul(overallPaleness, Rat(3, 10))),
               RatMul(RatSub(RInt(1), colorBalance), Rat(2, 10)))

calculatePallorIndex(r, g, b, brightness) ==
    LET redDeficiency == RatMax(RInt(0), RatDivInt(RatSub(RInt(200), r), 200))
        overallPaleness == RatMax(RInt(0), RatDivInt(RatSub(RInt(220), brightness), 220))
        colorBalance == RatDivInt(RatAbs(RatSub(r, g)), 255)
    IN  RatAdd(RatAdd(RatMul(redDeficiency, Rat(5, 10)),
                      RatMul(overallPaleness, Rat(3, 10))),
               RatMul(RatSub(RInt(1), colorBalance), Rat(2, 10)))

----------------------------------------------------------------------------
(* assessAnemiaRisk *)

Tiers == <<"Normal", "Mild Risk", "High Risk", "Severe Risk">>

\* Position of a tier in the severity order Normal < Mild < High < Severe.
Rank(tier) == CHOOSE i \in 1..Len(Tiers) : Tiers[i] = tier

\* Mutant: the pallor test of the first branch inverted.
riskTierInverted(pallorIndex, hemoglobinEstimate) ==
    IF RatGt(pallorIndex, Rat(2, 10)) /\ RatGe(hemoglobinEstimate, RInt(12))
    THEN "Normal"
    ELSE IF RatLt(pallorIndex, Rat(4, 10)) /\ RatGe(hemoglobinEstimate, RInt(10))
    THEN "Mild Risk"
    ELSE IF RatLt(pallorIndex, Rat(6, 10)) /\ RatGe(hemoglobinEstimate, RInt(8))
    THEN "High Risk"
    ELSE "Severe Risk"

\* Mutant: the hemoglobin test of the second branch dropped.
riskTierNoMildFloor(pallorIndex, hemoglobinEstimate) ==
    IF RatLt(pallorIndex, Rat(2, 10)) /\ RatGe(hemoglobinEstimate, RInt(12))
    THEN "Normal"
    ELSE IF RatLt(pallorIndex, Rat(4, 10))
    THEN "Mild Risk"
    ELSE IF RatLt(pallorIndex, Rat(6, 10)) /\ RatGe(hemoglobinEstimate, RInt(8))
    THEN "High Risk"
    ELSE "Severe Risk"

\* The if / else-if cascade that selects the branch.
riskTier(pallorIndex, hemoglobinEstimate) ==
    IF RatLt(pallorIndex, Rat(2, 10)) /\ RatGe(hemoglobinEstimate, RInt(12))
    THEN "Normal"
    ELSE IF RatLt(pallorIndex, Rat(4, 10)) /\ RatGe(hemoglobinEstimate, RInt(10))
    THEN "Mild Risk"
    ELSE IF RatLt(pallorIndex, Rat(6, 10)) /\ RatGe(hemoglobinEstimate, RInt(8))
    THEN "High Risk"
    ELSE "Severe Risk"

\* Mutant: the offset of the Mild Risk score lost.
branchRiskScoreNoOffset(tier, pallorIndex) ==
    IF tier = "Normal" THEN RatMul(pallorIndex, RInt(50))
    ELSE IF tier = "Mild Risk" THEN RatMul(pallorIndex, RInt(40))
    ELSE IF tier = "High Risk" THEN RatAdd(RInt(55), RatMul(pallorIndex, RInt(30)))
    ELSE RatAdd(RInt(75), RatMul(pallorIndex, RInt(25)))

\* riskScore as assigned in the selected branch (before rounding).
branchRiskScore(tier, pallorIndex) ==
    IF tier = "Normal" THEN RatMul(pallorIndex, RInt(50))
    ELSE IF tier = "Mild Risk" THEN RatAdd(RInt(25), RatMul(pallorIndex, RInt(40)))
    ELSE IF tier = "High Risk" THEN RatAdd(RInt(55), RatMul(pallorIndex, RInt(30)))
    ELSE RatAdd(RInt(75), RatMul(pallorIndex, RInt(25)))

\* Mutant: the Severe Risk jitter span of 4 written as 8.
branchConfidenceWide(tier, rnd) ==
    IF tier = "Normal" THEN RatAdd(RInt(92), RatMul(rnd, RInt(6)))
    ELSE IF tier = "Mild Risk" THEN RatAdd(RInt(87), RatMul(rnd, RInt(8)))
    ELSE IF tier = "High Risk" THEN RatAdd(RInt(89), RatMul(rnd, RInt(6)))
    ELSE RatAdd(RInt(94), RatMul(rnd, RInt(8)))

\* confidence as assigned in the selected branch; rnd is the value that
\* Math.random() returned, in [0, 1).
branchConfidence(tier, rnd) ==
    IF tier = "Normal" THEN RatAdd(RInt(92), RatMul(rnd, RInt(6)))
    ELSE IF tier = "Mild Risk" THEN RatAdd(RInt(87), RatMul(rnd, RInt(8)))
    ELSE IF tier = "High Risk" THEN RatAdd(RInt(89), RatMul(rnd, RInt(6)))
    ELSE RatAdd(RInt(94), RatMul(rnd, RInt(4)))

\* Mutant: the Mild Risk list given the entries of a 3x3 grid.
branchFocusAreasGrid(tier) ==
    IF tier = "Normal" THEN <<>>
    ELSE IF tier = "Mild Risk" THEN <<30, 40, 50, 60, 70, 80, 90, 100, 110>>
    ELSE IF tier = "High Risk" THEN <<20, 30, 40, 50, 60, 70>>
    ELSE <<10, 20, 30, 40, 50, 60, 70, 80>>

\* focusAreas: [] initially, reassigned in three of the branches.
branchFocusAreas(tier) ==
    IF tier = "Normal" THEN <<>>
    ELSE IF tier = "Mild Risk" THEN <<30, 40, 50, 60>>
    ELSE IF tier = "High Risk" THEN <<20, 30, 40, 50, 60, 70>>
    ELSE <<10, 20, 30, 40, 50, 60, 70, 80>>

\* The recommendation list of a branch; each string is named by a key.
branchRecommendations(tier) ==
    IF tier = "Normal"
    THEN <<"balanced diet", "physical activity", "monitor changes", "routine blood work">>
    ELSE IF tier = "Mild Risk"
    THEN <<"iron-rich foods", "vitamin C", "monitor symptoms", "blood work 2-4 weeks",
           "consult provider">>
    ELSE IF tier = "High Risk"
    THEN <<"immediate evaluation", "iron supplementation", "investigate causes",
           "monitor closely", "diet modifications">>
    ELSE <<"URGENT", "comprehensive blood work", "iron infusion",
           "investigate serious causes", "monitor severe symptoms">>

\* The detailed findings of a branch; the interpolated texts are named by
\* the quantity they print.
branchFindings(tier) ==
    IF tier \in {"Normal", "Mild Risk"}
    THEN <<"red intensity", "pallor index", "estimated hemoglobin">>
    ELSE <<"red intensity", "pallor index", "estimated hemoglobin", "color pattern">>

\* Mutant: the jitter added to the score as well as to the confidence.
assessAnemiaRiskJitteredScore(pallorIndex, hemoglobinEstimate, r, g, b, rnd) ==
    LET tier == riskTier(pallorIndex, hemoglobinEstimate)
    IN  [ result           |-> tier,
          riskScore        |-> MathRound(RatAdd(branchRiskScore(tier, pallorIndex),
                                                RatMul(rnd, RInt(6)))),
          confidence       |-> RoundTo(branchConfidence(tier, rnd), 10),
          explanation      |-> tier,
          recommendations  |-> branchRecommendations(tier),
          detailedFindings |-> branchFindings(tier),
          focusAreas       |-> branchFocusAreas(tier) ]

\* rnd stands for the value of the one Math.random() call of the branch.
assessAnemiaRisk(pallorIndex, hemoglobinEstimate, r, g, b, rnd) ==
    LET tier == riskTier(pallorIndex, hemoglobinEstimate)
    IN  [ result           |-> tier,
          riskScore        |-> MathRound(branchRiskScore(tier, pallorIndex)),
          confidence       |-> RoundTo(branchConfidence(tier, rnd), 10),
          explanation      |-> tier,
          recommendations  |-> branchRecommendations(tier),
          detailedFindings |-> branchFindings(tier),
          focusAreas       |-> branchFocusAreas(tier) ]

----------------------------------------------------------------------------
(* generateGradCAM and getDefaultResult *)

\* Mutant: the cells laid out four to a row.
generateGradCAMFourColumns(width, height, focusAreas) ==
    [ width  |-> width,
      height |-> height,
      cells  |-> [ index \in 1..Len(focusAreas) |->
                     [ col       |-> (index - 1) % 4,
                       row       |-> (index - 1) \div 4,
                       x3        |-> ((index - 1) % 4) * width,
                       y3        |-> ((index - 1) \div 4) * height,
                       w3        |-> width,
                       h3        |-> height,
                       intensity |-> focusAreas[index] ] ] ]

\* The overlay is named by its size and by the cell, the rectangle and the
\* intensity of each gradient that forEach draws.  x3, y3, w3, h3 are the
\* arguments of fillRect in thirds of a pixel: x = (index % 3) *
\* (canvas.width / 3) is x3 / 3.  The sequence is indexed from 1, the array
\* of the code from 0.
generateGradCAM(width, height, focusAreas) ==
    [ width  |-> width,
      height |-> height,
      cells  |-> [ index \in 1..Len(focusAreas) |->
                     [ col       |-> (index - 1) % 3,
                       row       |-> (index - 1) \div 3,
                       x3        |-> ((index - 1) % 3) * width,
                       y3        |-> ((index - 1) \div 3) * height,
                       w3        |-> width,
                       h3        |-> height,
                       intensity |-> focusAreas[index] ] ] ]

\* gradCamUrl: '' of the default record.
NoGradCam == [width |-> 0, height |-> 0, cells |-> <<>>]

\* The timestamp (new Date()) is kept apart from the record: see calls.
getDefaultResult ==
    [ confidence       |-> RInt(85),
      riskScore        |-> 25,
      result           |-> "Mild Risk",
      explanation      |-> "unable",
      recommendations  |-> <<"retake image", "professional evaluation", "monitor signs">>,
      gradCamUrl       |-> NoGradCam,
      colorAnalysis    |-> [ redChannel         |-> 0,
                             greenChannel       |-> 0,
                             blueChannel        |-> 0,
                             avgBrightness      |-> 0,
                             pallorIndex        |-> RInt(0),
                             hemoglobinEstimate |-> RInt(0) ],
      detailedFindings |-> <<"analysis unavailable">> ]

----------------------------------------------------------------------------
(* The images analyzeAnemiaFromImage is invoked on *)

Px(r, g, b, a) == [r |-> r, g |-> g, b |-> b, a |-> a]

\* The pixels rasters are made of: skin tones of the four tiers, an opaque
\* colour with the low skin score, and transparent pixels of two colours.
MidTone   == Px(220, 170, 140, 255)
PaleTone  == Px(250, 230, 220, 255)
TanTone   == Px(150, 110, 90, 255)
DarkTone  == Px(100, 60, 40, 255)
LowTone   == Px(90, 60, 50, 255)
ClearMid  == Px(220, 170, 140, 0)
ClearZero == Px(0, 0, 0, 0)

Palette == {MidTone, PaleTone, TanTone, DarkTone, LowTone, ClearMid, ClearZero}

RastersUpTo(k) == UNION { [1..len -> Palette] : len \in 1..k }

\* What the browser does with the image: "ok" (it loads and is drawn and
\* read), "onerror" (it fails to load), "noctx" (getContext('2d') is null),
\* "drawThrows" / "readThrows" (ctx.drawImage / ctx.getImageData throws).
Outcomes == {"ok", "onerror", "noctx", "drawThrows", "readThrows"}

Images ==
    [outcome : {"ok"}, pixels : RastersUpTo(MaxPixels)]
    \cup [outcome : Outcomes \ {"ok"}, pixels : RastersUpTo(MaxFailPixels)]

\* ImageData.data: the RGBA bytes of the raster, row by row.
RECURSIVE getImageData(_)
getImageData(pixels) ==
    IF pixels = <<>> THEN <<>>
    ELSE <<Head(pixels).r, Head(pixels).g, Head(pixels).b, Head(pixels).a>>
         \o getImageData(Tail(pixels))

----------------------------------------------------------------------------
(* The sampling loop of img.onload *)

EmptyAcc ==
    [totalR |-> 0, totalG |-> 0, totalB |-> 0, totalBrightness |-> RInt(0),
     skinPixelCount |-> 0]

\* Mutant: the transparency test dropped.
skipPixelNever(alpha) == FALSE

\* if (alpha < 128) continue
skipPixel(alpha) == alpha < 128

\* Mutant: the low-confidence score 0.5 counted as skin.
countsAsSkinFromHalf(skinLikelihood) == RatGe(skinLikelihood, Rat(5, 10))

\* if (skinLikelihood > 0.6)
countsAsSkin(skinLikelihood) == RatGt(skinLikelihood, Rat(6, 10))

\* One iteration of the loop body at byte index i (from 0).
sampleStep(data, i, a) ==
    LET r == data[i + 1]
        g == data[i + 2]
        b == data[i + 3]
        alpha == data[i + 4]
    IN  IF skipPixel(alpha) THEN a
        ELSE IF countsAsSkin(isSkinPixel(r, g, b))
        THEN [ totalR          |-> a.totalR + r,
               totalG          |-> a.totalG + g,
               totalB          |-> a.totalB + b,
               totalBrightness |-> RatAdd(a.totalBrightness, Rat(r + g + b, 3)),
               skinPixelCount  |-> a.skinPixelCount + 1 ]
        ELSE a

\* Mutant: the loop visits every pixel (i += 4).
RECURSIVE sampleLoopEveryPixel(_, _, _)
sampleLoopEveryPixel(data, i, a) ==
    IF i < Len(data) THEN sampleLoopEveryPixel(data, i + 4, sampleStep(data, i, a)) ELSE a

\* for (let i = 0; i < pixels.length; i += 16)
RECURSIVE sampleLoop(_, _, _)
sampleLoop(data, i, a) ==
    IF i < Len(data) THEN sampleLoop(data, i + 16, sampleStep(data, i, a)) ELSE a

\* Mutant: the estimate scaled for rounding and never scaled back.
roundHemoglobinScaled(hemoglobinEstimate) == RInt(MathRound(RatMul(hemoglobinEstimate, RInt(10))))

\* Math.round(hemoglobinEstimate * 10) / 10
roundHemoglobin(hemoglobinEstimate) == RoundTo(hemoglobinEstimate, 10)

\* The record resolved on the classified path; rnd is the jitter.
classifiedResult(width, height, a, rnd) ==
    LET avgR == Rat(a.totalR, a.skinPixelCount)
        avgG == Rat(a.totalG, a.skinPixelCount)
        avgB == Rat(a.totalB, a.skinPixelCount)
        avgBrightness == RatDivInt(a.totalBrightness, a.skinPixelCount)
        pallorIndex == calculatePallorIndex(avgR, avgG, avgB, avgBrightness)
        hemoglobinEstimate == estimateHemoglobin(avgR, avgG, avgB, pallorIndex)
        riskAssessment ==
            assessAnemiaRisk(pallorIndex, hemoglobinEstimate, avgR, avgG, avgB, rnd)
    IN  [ confidence       |-> riskAssessment.confidence,
          riskScore        |-> riskAssessment.riskScore,
          result           |-> riskAssessment.result,
          explanation      |-> riskAssessment.explanation,
          recommendations  |-> riskAssessment.recommendations,
          gradCamUrl       |-> generateGradCAM(width, height, riskAssessment.focusAreas),
          colorAnalysis    |-> [ redChannel         |-> MathRound(avgR),
                                 greenChannel       |-> MathRound(avgG),
                                 blueChannel        |-> MathRound(avgB),
                                 avgBrightness      |-> MathRound(avgBrightness),
                                 pallorIndex        |-> RoundTo(pallorIndex, 100),
                                 hemoglobinEstimate |-> roundHemoglobin(hemoglobinEstimate) ],
          detailedFindings |-> riskAssessment.detailedFindings ]

----------------------------------------------------------------------------
(* Inputs of the pure functions *)

\* A value Math.random() can return that is next to 1.
NearOne == Rat(9999, 10000)

Jitters == { Rat(k, GDen) : k \in 0..(GDen - 1) } \cup {NearOne}

\* pallorIndex values: a grid on [0, 1], the thresholds of the cascade, and
\* values outside [0, 1].
PallorInputs ==
    { Rat(k, PDen) : k \in 0..PDen }
    \cup { Rat(2, 10), Rat(4, 10), Rat(6, 10) }
    \cup { RInt(-1), Rat(6, 5), RInt(2), RInt(3) }

\* hemoglobin values: a grid around the thresholds of the cascade, the clamp
\* bounds, and values outside the clamp.
HemoglobinInputs ==
    { Rat(k, HDen) : k \in (7 * HDen)..(13 * HDen) }
    \cup { RInt(0), RInt(4), RInt(18), RInt(20) }

\* average red values in [0, 255].
RedInputs == { Rat(255 * k, RSteps) : k \in 0..RSteps }

----------------------------------------------------------------------------
(* State and actions *)

\* A value that is not there yet is the empty sequence, a value v that is
\* there is <<v>>.
None == <<>>
Some(v) == <<v>>

\* A placeholder image for the specifications that invoke no analysis.
NoImage == [outcome |-> "onerror", pixels |-> <<ClearZero>>]

\* No invocation of the two-call specification is in flight.
IdleCalls == calls = <<>> /\ now = 0

\* The state of the page and of runAnalysis in the specifications that do
\* not run the page.
IdlePage == page = None /\ run = None /\ readers = {}

\* The state of the application shell in the specifications that do not
\* run it.
IdleApp == auth = None /\ router = None

IdleFns == skin = None /\ sample = None /\ pallor = None /\ cam = None

IdleRun ==
    /\ img = NoImage /\ pc = "idle" /\ acc = None /\ result = None
    /\ hb = None /\ risk = None

\* analyzeAnemiaFromImage(imageData) up to img.src = imageData: the promise
\* is pending and the image is loading.
Init ==
    /\ img \in Images
    /\ pc = "loading"
    /\ acc = None
    /\ result = None
    /\ hb = None
    /\ risk = None
    /\ IdleCalls /\ IdleFns /\ validation = None /\ IdlePage /\ IdleApp

\* img.onerror = () => resolve(getDefaultResult())
ImgOnerror ==
    /\ pc = "loading"
    /\ img.outcome = "onerror"
    /\ pc' = "resolved"
    /\ result' = Some(getDefaultResult)
    /\ UNCHANGED <<img, acc, hb, risk, more>>

\* img.onload: no context, an exception that leaves the handler (nothing
\* catches it, so resolve is never called), no skin pixel, or a classified
\* result.
ImgOnload ==
    /\ pc = "loading"
    /\ img.outcome # "onerror"
    /\ IF img.outcome = "noctx"
       THEN /\ pc' = "resolved"
            /\ result' = Some(getDefaultResult)
            /\ acc' = acc
       ELSE IF img.outcome \in {"drawThrows", "readThrows"}
       THEN /\ pc' = "uncaught"
            /\ result' = result
            /\ acc' = acc
       ELSE LET a == sampleLoop(getImageData(img.pixels), 0, EmptyAcc)
            IN  /\ pc' = "resolved"
                /\ acc' = Some(a)
                /\ IF a.skinPixelCount = 0
                   THEN result' = Some(getDefaultResult)
                   ELSE \E rnd \in Jitters :
                            result' = Some(classifiedResult(Len(img.pixels), 1, a, rnd))
    /\ UNCHANGED <<img, hb, risk, more>>

Next == ImgOnerror \/ ImgOnload

Spec == Init /\ [][Next]_vars

\* estimateHemoglobin applied to an average red value and a pallor index.
InitHemoglobin ==
    /\ img = NoImage /\ pc = "idle" /\ acc = None /\ result = None
    /\ hb = None
    /\ risk = None
    /\ IdleCalls /\ IdleFns /\ validation = None /\ IdlePage /\ IdleApp

EstimateHemoglobin ==
    /\ \E r \in RedInputs, p \in PallorInputs :
           hb' = Some([r |-> r, pallorIndex |-> p, out |-> estimateHemoglobin(r, r, r, p)])
    /\ UNCHANGED <<img, pc, acc, result, risk, more>>

NextHemoglobin == EstimateHemoglobin

SpecHemoglobin == InitHemoglobin /\ [][NextHemoglobin]_vars

\* assessAnemiaRisk applied to a pallor index, a hemoglobin estimate and a
\* jitter value.
InitRisk ==
    /\ img = NoImage /\ pc = "idle" /\ acc = None /\ result = None
    /\ hb = None
    /\ risk = None
    /\ IdleCalls /\ IdleFns /\ validation = None /\ IdlePage /\ IdleApp

AssessAnemiaRisk ==
    /\ \E p \in PallorInputs, h \in HemoglobinInputs, rnd \in Jitters :
           risk' = Some([pallorIndex |-> p, hemoglobinEstimate |-> h, rnd |-> rnd,
                         out |-> assessAnemiaRisk(p, h, RInt(0), RInt(0), RInt(0), rnd)])
    /\ UNCHANGED <<img, pc, acc, result, hb, more>>

NextRisk == AssessAnemiaRisk

SpecRisk == InitRisk /\ [][NextRisk]_vars

----------------------------------------------------------------------------
(* Properties of analyzeAnemiaFromImage (specification Spec) *)

\* The handler of the image has run (img.onload or img.onerror).
HandlerRan == pc # "loading"

Classified == acc # None /\ acc[1].skinPixelCount > 0
NoSkinFound == acc # None /\ acc[1].skinPixelCount = 0

ColorOf(px) == <<px.r, px.g, px.b>>

\* The positions of the raster (from 1) the loop reads, every 4th pixel, and
\* those of them it does not skip as transparent.
SampledPositions == { i \in DOMAIN img.pixels : (i - 1) % 4 = 0 }
SampledOpaque == { i \in SampledPositions : img.pixels[i].a >= 128 }

\* C1: whenever the analysis cannot run (load failure, no 2D context, an
\* exception while drawing or reading pixels, no skin pixel), the promise
\* resolves with the fixed fallback record; it is never left pending.
C1_FallbackOnEveryFailure ==
    (HandlerRan /\ (img.outcome # "ok" \/ NoSkinFound))
        => (pc = "resolved" /\ result = Some(getDefaultResult))

\* C2: a raster whose pixels all have alpha = 0 ends the sampling loop with
\* skinPixelCount = 0 and resolves with the fallback record, whatever the
\* colours of the pixels.
C2_TransparentRasterFallsBack ==
    (HandlerRan /\ img.outcome = "ok" /\ \A i \in DOMAIN img.pixels : img.pixels[i].a = 0)
        => /\ pc = "resolved"
           /\ acc # None /\ acc[1].skinPixelCount = 0
           /\ result = Some(getDefaultResult)
           /\ result[1].result = "Mild Risk"
           /\ result[1].confidence = RInt(85)
           /\ result[1].riskScore = 25

\* C2 witness: a transparent raster with skin-coloured pixels at both
\* sampled positions has been analysed.
C2_Witness ==
    /\ pc = "resolved" /\ img.outcome = "ok"
    /\ Len(img.pixels) >= 5
    /\ \A i \in DOMAIN img.pixels : img.pixels[i].a = 0
    /\ img.pixels[1] = ClearMid /\ img.pixels[5] = ClearMid

\* Every sampled opaque pixel has the mid-tone colour, and there is one.
AllSampledMidTone ==
    /\ HandlerRan /\ img.outcome = "ok"
    /\ SampledOpaque # {}
    /\ \A i \in SampledOpaque : ColorOf(img.pixels[i]) = <<220, 170, 140>>

\* C3 as stated: such a raster is classified Normal.
C3_MidToneIsNormal ==
    AllSampledMidTone => (Classified /\ result[1].result = "Normal")

\* C3 as amended: a raster with at least one sampled opaque pixel, all of
\* them of colour (220, 170, 140), has skinPixelCount > 0 and is classified
\* Mild Risk: its pallor index is 0.22 to two decimals, not below 0.2, and
\* its hemoglobin estimate 16.1.
C3_MidToneIsMildRisk ==
    AllSampledMidTone
        => /\ Classified
           /\ result[1].result = "Mild Risk"
           /\ result[1].colorAnalysis.pallorIndex = Rat(22, 100)
           /\ result[1].colorAnalysis.hemoglobinEstimate = Rat(161, 10)

\* C3 witness: both sampled pixels are mid-tone, among pixels that are not.
C3_Witness ==
    /\ AllSampledMidTone
    /\ Cardinality(SampledOpaque) = 2
    /\ \E i \in DOMAIN img.pixels : img.pixels[i] = DarkTone

InClampRange(h) == RatGe(h, RInt(4)) /\ RatLe(h, RInt(18))

\* C4 as stated: the hemoglobinEstimate of every returned record is within
\* [4.0, 18.0], on the fallback paths too.
C4_HemoglobinAlwaysInRange ==
    pc = "resolved" => InClampRange(result[1].colorAnalysis.hemoglobinEstimate)

\* C4 as amended: the hemoglobinEstimate of a returned record is within
\* [4.0, 18.0] when skin pixels were found, and is 0 on every fallback path.
C4_HemoglobinInRangeWhenClassified ==
    pc = "resolved"
        => IF Classified
           THEN InClampRange(result[1].colorAnalysis.hemoglobinEstimate)
           ELSE result[1].colorAnalysis.hemoglobinEstimate = RInt(0)

\* C4 witness: a classified result with an estimate in the anemic range.
C4_Witness ==
    /\ pc = "resolved" /\ Classified
    /\ RatLt(result[1].colorAnalysis.hemoglobinEstimate, RInt(12))

----------------------------------------------------------------------------
(* Properties of estimateHemoglobin (specification SpecHemoglobin) *)

\* C5 as stated: avgR = 0 with pallorIndex = 1 clamps to 4.0, and avgR = 255
\* with pallorIndex = 0 gives 18.0.
C5_BoundaryClampsToFloor ==
    hb # None
        => /\ (hb[1].r = RInt(0) /\ hb[1].pallorIndex = RInt(1)) => hb[1].out = RInt(4)
           /\ (hb[1].r = RInt(255) /\ hb[1].pallorIndex = RInt(0)) => hb[1].out = RInt(18)

\* C5 as amended: avgR = 0 with pallorIndex = 1 gives 14.0 - 6.0 = 8.0,
\* inside the clamp range, and avgR = 255 with pallorIndex = 0 gives
\* 14.0 + 4.0 = 18.0, the ceiling.
C5_BoundaryValues ==
    hb # None
        => /\ (hb[1].r = RInt(0) /\ hb[1].pallorIndex = RInt(1)) => hb[1].out = RInt(8)
           /\ (hb[1].r = RInt(255) /\ hb[1].pallorIndex = RInt(0)) => hb[1].out = RInt(18)

\* C5 witness: the estimate at avgR = 0, pallorIndex = 1 has been computed.
C5_Witness ==
    hb # None /\ hb[1].r = RInt(0) /\ hb[1].pallorIndex = RInt(1) /\ hb[1].out = RInt(8)

----------------------------------------------------------------------------
(* Properties of assessAnemiaRisk (specification SpecRisk) *)

NormalCondition(p, h) == RatLt(p, Rat(1, 5)) /\ RatGe(h, RInt(12))
MildCondition(p, h)   == RatLt(p, Rat(2, 5)) /\ RatGe(h, RInt(10))
HighCondition(p, h)   == RatLt(p, Rat(3, 5)) /\ RatGe(h, RInt(8))

InUnitInterval(p) == RatGe(p, RInt(0)) /\ RatLe(p, RInt(1))

\* C6: exactly one tier is selected for every (pallorIndex, hemoglobin), by
\* first match in the order Normal, Mild Risk, High Risk, Severe Risk; the
\* selection is the same for every jitter value.
C6_TierByFirstMatch ==
    risk # None
        => LET p == risk[1].pallorIndex
               h == risk[1].hemoglobinEstimate
               t == risk[1].out.result
           IN  /\ t \in {"Normal", "Mild Risk", "High Risk", "Severe Risk"}
               /\ t = "Normal" <=> NormalCondition(p, h)
               /\ t = "Mild Risk" <=> (~NormalCondition(p, h) /\ MildCondition(p, h))
               /\ t = "High Risk"
                    <=> (~NormalCondition(p, h) /\ ~MildCondition(p, h) /\ HighCondition(p, h))
               /\ t = "Severe Risk"
                    <=> (~NormalCondition(p, h) /\ ~MildCondition(p, h) /\ ~HighCondition(p, h))

\* C6 witness: a pallor index below 0.2 with a hemoglobin between 10 and 12
\* fails the first test and is selected by the second, at the largest jitter.
C6_Witness ==
    /\ risk # None
    /\ RatLt(risk[1].pallorIndex, Rat(1, 5))
    /\ RatLt(risk[1].hemoglobinEstimate, RInt(12))
    /\ risk[1].out.result = "Mild Risk"
    /\ risk[1].rnd = NearOne

\* C7: for a fixed hemoglobin, a pallor index that is not smaller is never
\* assigned a less severe tier (compared over every two consecutive
\* applications, which range over all pairs of inputs).
C7_TierMonotonicInPallor ==
    [][ (risk # None /\ risk' # None
         /\ risk[1].hemoglobinEstimate = risk'[1].hemoglobinEstimate
         /\ RatLe(risk[1].pallorIndex, risk'[1].pallorIndex))
            => Rank(risk[1].out.result) <= Rank(risk'[1].out.result) ]_vars

\* C7 witness: at a hemoglobin of 12 or more, a pallor index of 0.6 or more
\* has been classified Severe Risk.
C7_Witness ==
    /\ risk # None
    /\ RatGe(risk[1].hemoglobinEstimate, RInt(12))
    /\ RatGe(risk[1].pallorIndex, Rat(3, 5))
    /\ risk[1].out.result = "Severe Risk"

\* The part of C8 about one result: with pallorIndex in [0, 1] the score is
\* in 0..100 and a Normal score is at most 10; at pallorIndex 0.2 and
\* hemoglobin 12.0 the tier is Mild Risk and the score 33.
C8_ScoreOfOneResult ==
    risk # None
        => LET p == risk[1].pallorIndex
               h == risk[1].hemoglobinEstimate
               o == risk[1].out
           IN  /\ InUnitInterval(p) => o.riskScore \in 0..100
               /\ (InUnitInterval(p) /\ o.result = "Normal") => o.riskScore <= 10
               /\ (p = Rat(1, 5) /\ h = RInt(12))
                    => (o.result = "Mild Risk" /\ o.riskScore = 33)

\* C8: for pallor indices in [0, 1], a result of a more severe tier never has
\* a lower riskScore than a result of a less severe tier (compared over
\* every two consecutive applications), and every score is in 0..100.
C8_ScoreMonotonicInTier ==
    /\ []C8_ScoreOfOneResult
    /\ [][ (risk # None /\ risk' # None
            /\ InUnitInterval(risk[1].pallorIndex) /\ InUnitInterval(risk'[1].pallorIndex)
            /\ Rank(risk[1].out.result) < Rank(risk'[1].out.result))
               => risk[1].out.riskScore <= risk'[1].out.riskScore ]_vars

\* C8 witness: the boundary pallorIndex = 0.2, hemoglobin = 12.0 has been
\* scored 33 as Mild Risk.
C8_Witness ==
    /\ risk # None
    /\ risk[1].pallorIndex = Rat(1, 5) /\ risk[1].hemoglobinEstimate = RInt(12)
    /\ risk[1].out.result = "Mild Risk" /\ risk[1].out.riskScore = 33

\* lo <= c <= lo + span, and c has one decimal.
InBand(c, lo, span) ==
    /\ RatGe(c, RInt(lo)) /\ RatLe(c, RInt(lo + span))
    /\ 10 % c.d = 0

\* C9: for every jitter value the confidence lies in the band of its tier
\* (Normal 92..98, Mild Risk 87..95, High Risk 89..95, Severe Risk 94..98),
\* with one decimal, so that every confidence, the 85.0 of the fallback
\* record included, is within 0..100.
C9_ConfidenceInTierBand ==
    /\ RatGe(getDefaultResult.confidence, RInt(0))
    /\ RatLe(getDefaultResult.confidence, RInt(100))
    /\ risk # None
         => LET c == risk[1].out.confidence
                t == risk[1].out.result
            IN  /\ t = "Normal" => InBand(c, 92, 6)
                /\ t = "Mild Risk" => InBand(c, 87, 8)
                /\ t = "High Risk" => InBand(c, 89, 6)
                /\ t = "Severe Risk" => InBand(c, 94, 4)
                /\ RatGe(c, RInt(0)) /\ RatLe(c, RInt(100))

\* C9 witness: at the largest jitter the Severe Risk confidence rounds to
\* the top of its band, 98.0.
C9_Witness ==
    /\ risk # None
    /\ risk[1].rnd = NearOne
    /\ risk[1].out.result = "Severe Risk"
    /\ risk[1].out.confidence = RInt(98)

\* C10: focusAreas has the length of its tier (0, 4, 6, 8) and every entry
\* is an intensity in 0..100.
C10_FocusAreasLength ==
    risk # None
        => LET f == risk[1].out.focusAreas
               t == risk[1].out.result
           IN  /\ t = "Normal" => Len(f) = 0
               /\ t = "Mild Risk" => Len(f) = 4
               /\ t = "High Risk" => Len(f) = 6
               /\ t = "Severe Risk" => Len(f) = 8
               /\ \A i \in DOMAIN f : f[i] \in 0..100

\* C10 witness: a Severe Risk result carries eight focus areas.
C10_Witness ==
    /\ risk # None
    /\ risk[1].out.result = "Severe Risk"
    /\ Len(risk[1].out.focusAreas) = 8

----------------------------------------------------------------------------
(* Two invocations of analyzeAnemiaFromImage (specification SpecCalls) *)

\* Longest raster of an invocation of the two-call specification.
MaxCallPixels == 1
\* Latest tick of the clock.
MaxNow == 1

CallPalette == {MidTone, DarkTone, LowTone, ClearMid}

CallImages ==
    [outcome : {"ok"},
     pixels : UNION { [1..len -> CallPalette] : len \in 1..MaxCallPixels }]
    \cup [outcome : Outcomes \ {"ok"}, pixels : {<<ClearZero>>}]

\* Mutant: the totals kept outside the handler and not reset, so that a run
\* starts from what the other run left.
accumulatorAtStartShared(otherAcc) ==
    IF otherAcc = None THEN EmptyAcc ELSE otherAcc[1]

\* let totalR = 0, ..., skinPixelCount = 0 inside img.onload: every run of
\* the handler starts from its own zero totals, whatever the accumulator of
\* the other invocation holds.
accumulatorAtStart(otherAcc) == EmptyAcc

\* What img.onload does for an image that loaded: the state it leaves the
\* promise in, the accumulator of its loop and the value it resolves with.
onloadOutcome(image, start, rnd) ==
    IF image.outcome = "noctx"
    THEN [pc |-> "resolved", acc |-> None, result |-> Some(getDefaultResult)]
    ELSE IF image.outcome \in {"drawThrows", "readThrows"}
    THEN [pc |-> "uncaught", acc |-> None, result |-> None]
    ELSE LET a == sampleLoop(getImageData(image.pixels), 0, start)
         IN  [ pc     |-> "resolved",
               acc    |-> Some(a),
               result |-> IF a.skinPixelCount = 0
                          THEN Some(getDefaultResult)
                          ELSE Some(classifiedResult(Len(image.pixels), 1, a, rnd)) ]

NewCall(image) ==
    [img |-> image, pc |-> "loading", acc |-> None, result |-> None, timestamp |-> None]

\* Both invocations have been made and both images are loading.
InitCalls ==
    /\ img = NoImage /\ pc = "idle" /\ acc = None /\ result = None
    /\ hb = None
    /\ risk = None
    /\ \E i1 \in CallImages, i2 \in CallImages : calls = <<NewCall(i1), NewCall(i2)>>
    /\ now = 0
    /\ IdleFns /\ validation = None /\ IdlePage /\ IdleApp

\* img.onerror of invocation i; new Date() reads the clock, which has not
\* gone back since the last reading.
CallOnerror(i) ==
    /\ calls[i].pc = "loading"
    /\ calls[i].img.outcome = "onerror"
    /\ \E t \in now..MaxNow :
           /\ now' = t
           /\ calls' = [calls EXCEPT ![i].pc = "resolved",
                                     ![i].result = Some(getDefaultResult),
                                     ![i].timestamp = Some(t)]
    /\ UNCHANGED <<img, pc, acc, result, hb, risk, fnVars, validation, pageVars, appVars>>

\* img.onload of invocation i, run to completion.
CallOnload(i) ==
    /\ calls[i].pc = "loading"
    /\ calls[i].img.outcome # "onerror"
    /\ \E t \in now..MaxNow, rnd \in Jitters :
           LET o == onloadOutcome(calls[i].img, accumulatorAtStart(calls[3 - i].acc), rnd)
           IN  /\ now' = IF o.pc = "resolved" THEN t ELSE now
               /\ calls' = [calls EXCEPT ![i].pc = o.pc,
                                         ![i].acc = o.acc,
                                         ![i].result = o.result,
                                         ![i].timestamp =
                                             IF o.pc = "resolved" THEN Some(t) ELSE None]
    /\ UNCHANGED <<img, pc, acc, result, hb, risk, fnVars, validation, pageVars, appVars>>

NextCalls == \E i \in 1..2 : CallOnerror(i) \/ CallOnload(i)

SpecCalls == InitCalls /\ [][NextCalls]_vars

----------------------------------------------------------------------------
(* Properties of the sampling loop and of repeated and concurrent runs *)

RECURSIVE SumOver(_, _)
SumOver(S, f) ==
    IF S = {} THEN 0
    ELSE LET x == CHOOSE y \in S : TRUE IN f[x] + SumOver(S \ {x}, f)

\* The positions of a raster (from 1) at linear pixel index 0, 4, 8, ...
\* whose pixel has alpha >= 128 and a skin score above 0.6.
SkinPositions(pixels) ==
    { i \in DOMAIN pixels :
        /\ (i - 1) % 4 = 0
        /\ pixels[i].a >= 128
        /\ RatGt(isSkinPixel(pixels[i].r, pixels[i].g, pixels[i].b), Rat(3, 5)) }

\* The sums and the count over exactly those positions.
ExpectedAcc(pixels) ==
    LET S == SkinPositions(pixels)
    IN  [ totalR          |-> SumOver(S, [i \in DOMAIN pixels |-> pixels[i].r]),
          totalG          |-> SumOver(S, [i \in DOMAIN pixels |-> pixels[i].g]),
          totalB          |-> SumOver(S, [i \in DOMAIN pixels |-> pixels[i].b]),
          totalBrightness |->
              Rat(SumOver(S, [i \in DOMAIN pixels |->
                                  pixels[i].r + pixels[i].g + pixels[i].b]), 3),
          skinPixelCount  |-> Cardinality(S) ]

WithoutConfidence(r) == [r EXCEPT !.confidence = RInt(0)]

BothResolvedOnSameImage ==
    /\ calls # <<>>
    /\ calls[1].pc = "resolved" /\ calls[2].pc = "resolved"
    /\ calls[1].img = calls[2].img

\* C11 as stated: two invocations on the identical raster agree on every
\* field of the result but the confidence.
C11_OnlyConfidenceDiffers ==
    BothResolvedOnSameImage
        => /\ WithoutConfidence(calls[1].result[1]) = WithoutConfidence(calls[2].result[1])
           /\ calls[1].timestamp = calls[2].timestamp

\* C11 as amended: two invocations on the identical raster yield identical
\* tier, riskScore and colour metrics, and identical remaining fields; the
\* confidence jitter and the creation timestamp are the only fields that may
\* differ.
C11_Deterministic ==
    BothResolvedOnSameImage
        => /\ calls[1].result[1].result = calls[2].result[1].result
           /\ calls[1].result[1].riskScore = calls[2].result[1].riskScore
           /\ calls[1].result[1].colorAnalysis = calls[2].result[1].colorAnalysis
           /\ WithoutConfidence(calls[1].result[1]) = WithoutConfidence(calls[2].result[1])

\* C11 witness: the same skin raster classified twice, with two confidences
\* and two timestamps.
C11_Witness ==
    /\ BothResolvedOnSameImage
    /\ calls[1].acc # None /\ calls[1].acc[1].skinPixelCount > 0
    /\ calls[1].result[1].confidence # calls[2].result[1].confidence
    /\ calls[1].timestamp # calls[2].timestamp

\* What one invocation produces when no other invocation is in flight.
AloneOutcome(image) ==
    IF image.outcome = "onerror"
    THEN [pc |-> "resolved", acc |-> None, result |-> Some(getDefaultResult)]
    ELSE onloadOutcome(image, EmptyAcc, RInt(0))

\* C18: whatever the order in which the two images load, each invocation
\* ends with the accumulator, colour metrics, tier and riskScore it produces
\* when run alone on its image.
C18_NoInterference ==
    calls # <<>>
        => \A i \in 1..2 :
               calls[i].pc = "resolved"
                   => LET alone == AloneOutcome(calls[i].img)
                      IN  /\ calls[i].img.outcome = "ok"
                               => calls[i].acc = Some(ExpectedAcc(calls[i].img.pixels))
                          /\ calls[i].acc = alone.acc
                          /\ WithoutConfidence(calls[i].result[1])
                                 = WithoutConfidence(alone.result[1])

\* C18 witness: the second invocation resolved before the first one, both
\* classified, on different images.
C18_Witness ==
    /\ calls # <<>>
    /\ calls[1].pc = "resolved" /\ calls[2].pc = "resolved"
    /\ calls[1].img # calls[2].img
    /\ calls[1].acc # None /\ calls[1].acc[1].skinPixelCount > 0
    /\ calls[2].acc # None /\ calls[2].acc[1].skinPixelCount > 0
    /\ calls[2].timestamp = Some(0) /\ calls[1].timestamp = Some(1)

\* One invocation of analyzeAnemiaFromImage on a raster long enough for the
\* loop to take more than one step (specification SpecLoop): the rasters
\* hold a pixel of each kind the loop tells apart, scored 0.9, scored 0.7,
\* opaque and scored 0.5, and transparent.
MaxLoopPixels == 5

LoopPalette == {MidTone, PaleTone, LowTone, ClearMid}

LoopImages ==
    [outcome : {"ok"},
     pixels : UNION { [1..len -> LoopPalette] : len \in 1..MaxLoopPixels }]
    \cup [outcome : Outcomes \ {"ok"}, pixels : {<<ClearZero>>}]

InitLoop ==
    /\ img \in LoopImages
    /\ pc = "loading"
    /\ acc = None /\ result = None
    /\ hb = None /\ risk = None
    /\ IdleCalls /\ IdleFns /\ validation = None /\ IdlePage /\ IdleApp

SpecLoop == InitLoop /\ [][Next]_vars

\* The accumulator after the loop has gone through the first k pixels.
AccAfter(pixels, k) == sampleLoop(getImageData(SubSeq(pixels, 1, k)), 0, EmptyAcc)

\* C14: when the loop ends the accumulator holds the sums of R, G, B and
\* (R+G+B)/3 and the count over exactly the pixels at index 0, 4, 8, ... with
\* alpha >= 128 that are classified as skin, the reported channel averages
\* are those of these pixels alone, and the count is never negative while
\* the loop runs.
C14_AccumulatorIsSumOverSampledSkin ==
    acc # None
        => LET e == ExpectedAcc(img.pixels)
           IN  /\ acc[1] = e
               /\ \A k \in 0..Len(img.pixels) :
                      AccAfter(img.pixels, k).skinPixelCount \in 0..k
               /\ (pc = "resolved" /\ e.skinPixelCount > 0)
                    => /\ result[1].colorAnalysis.redChannel
                            = MathRound(Rat(e.totalR, e.skinPixelCount))
                       /\ result[1].colorAnalysis.greenChannel
                            = MathRound(Rat(e.totalG, e.skinPixelCount))
                       /\ result[1].colorAnalysis.blueChannel
                            = MathRound(Rat(e.totalB, e.skinPixelCount))
                       /\ result[1].colorAnalysis.avgBrightness
                            = MathRound(RatDivInt(e.totalBrightness, e.skinPixelCount))

\* C14 witness: of five skin pixels the first and the fifth are sampled and
\* counted, and the three between them are not.
C14_Witness ==
    /\ acc # None
    /\ img.pixels = <<PaleTone, MidTone, MidTone, MidTone, MidTone>>
    /\ acc[1].skinPixelCount = 2
    /\ acc[1].totalR = PaleTone.r + MidTone.r

----------------------------------------------------------------------------
(* isSkinPixel applied to a colour (specification SpecSkin) *)

\* Channel values: the ends of the range, the values on both sides of each
\* threshold of the RGB heuristic (20, 40, 95, difference 15) and of the
\* value range (89.25, 242.25), and values that put hue and saturation
\* exactly on the ends of their ranges.
Channels ==
    { 0, 20, 21, 32, 40, 41, 48, 60, 68, 89, 90, 95, 96, 100, 110, 111, 119,
      140, 150, 170, 220, 242, 243, 250, 255 }

InitSkin ==
    /\ IdleRun /\ IdleCalls
    /\ sample = None /\ pallor = None /\ cam = None /\ validation = None /\ IdlePage /\ IdleApp
    /\ \E r \in Channels, g \in Channels, b \in Channels :
           skin = Some([r |-> r, g |-> g, b |-> b, out |-> None])

IsSkinPixel ==
    /\ skin # None /\ skin[1].out = None
    /\ skin' = Some([skin[1] EXCEPT !.out = Some(isSkinPixel(skin[1].r, skin[1].g, skin[1].b))])
    /\ UNCHANGED <<img, pc, acc, result, hb, risk, callVars, sample, pallor, cam, validation, pageVars, appVars>>

NextSkin == IsSkinPixel

SpecSkin == InitSkin /\ [][NextSkin]_vars

\* The ranges of the claim on integer channels, without the conversion to
\* hue, saturation and value: with max = r the hue is 60(g-b)/delta degrees
\* (360 added when negative); a grey pixel has hue 0; when green or blue is
\* the largest channel alone the hue lies in [60, 300].
HueInRange(r, g, b) ==
    LET delta == Max3(r, g, b) - Min3(r, g, b)
    IN  \/ delta = 0
        \/ /\ Max3(r, g, b) = r
           /\ \/ g >= b /\ 12 * (g - b) <= 5 * delta
              \/ g < b /\ 3 * (b - g) <= delta

SaturationInRange(r, g, b) ==
    LET max == Max3(r, g, b)
        delta == max - Min3(r, g, b)
    IN  max > 0 /\ 100 * delta >= 15 * max /\ 100 * delta <= 68 * max

ValueInRange(r, g, b) ==
    LET max == Max3(r, g, b)
    IN  100 * max >= 35 * 255 /\ 100 * max <= 95 * 255

RgbHeuristic(r, g, b) ==
    /\ r > 95 /\ g > 40 /\ b > 20
    /\ Max3(r, g, b) - Min3(r, g, b) > 15
    /\ (r - g > 15 \/ g - r > 15) /\ r > g /\ r > b

\* C12: isSkinPixel returns 0.9 when the hue, saturation and value ranges
\* and the RGB heuristic all hold, otherwise 0.7 when the RGB heuristic
\* holds, otherwise 0.5 when the hue and saturation ranges hold, otherwise
\* 0.0; the score is one of 0.0, 0.5, 0.7, 0.9.
C12_SkinScoreByRanges ==
    (skin # None /\ skin[1].out # None)
        => LET r == skin[1].r
               g == skin[1].g
               b == skin[1].b
               out == skin[1].out[1]
               hsv == HueInRange(r, g, b) /\ SaturationInRange(r, g, b)
                      /\ ValueInRange(r, g, b)
           IN  /\ out \in {RInt(0), Rat(1, 2), Rat(7, 10), Rat(9, 10)}
               /\ out = Rat(9, 10) <=> (hsv /\ RgbHeuristic(r, g, b))
               /\ out = Rat(7, 10) <=> (~hsv /\ RgbHeuristic(r, g, b))
               /\ out = Rat(1, 2)
                    <=> /\ ~RgbHeuristic(r, g, b)
                        /\ HueInRange(r, g, b) /\ SaturationInRange(r, g, b)
               /\ out = RInt(0)
                    <=> /\ ~RgbHeuristic(r, g, b)
                        /\ ~(HueInRange(r, g, b) /\ SaturationInRange(r, g, b))

\* C12 witness: a colour whose hue is exactly 25 degrees scored 0.9.
C12_Witness ==
    /\ skin # None /\ skin[1].out = Some(Rat(9, 10))
    /\ skin[1].r = 96 /\ skin[1].g = 68 /\ skin[1].b = 48

----------------------------------------------------------------------------
(* One iteration of the sampling loop (specification SpecSample) *)

\* Largest number of pixels already accumulated when the iteration starts.
MaxStartCount == 2

\* An opaque green, which isSkinPixel scores 0.0.
Green == Px(30, 200, 40, 255)

SampleColours == {MidTone, PaleTone, TanTone, DarkTone, LowTone, Green}

SampleAlphas == {0, 127, 128, 255}

\* The accumulator after k pixels of the colour of MidTone were added.
StartAcc(k) ==
    [ totalR          |-> k * MidTone.r,
      totalG          |-> k * MidTone.g,
      totalB          |-> k * MidTone.b,
      totalBrightness |-> Rat(k * (MidTone.r + MidTone.g + MidTone.b), 3),
      skinPixelCount  |-> k ]

InitSample ==
    /\ IdleRun /\ IdleCalls
    /\ skin = None /\ pallor = None /\ cam = None /\ validation = None /\ IdlePage /\ IdleApp
    /\ \E k \in 0..MaxStartCount, c \in SampleColours, alpha \in SampleAlphas :
           sample = Some([before |-> StartAcc(k),
                          px     |-> Px(c.r, c.g, c.b, alpha),
                          after  |-> None])

SampleStep ==
    /\ sample # None /\ sample[1].after = None
    /\ sample' = Some([sample[1] EXCEPT
                          !.after = Some(sampleStep(getImageData(<<sample[1].px>>),
                                                    0, sample[1].before))])
    /\ UNCHANGED <<img, pc, acc, result, hb, risk, callVars, skin, pallor, cam, validation, pageVars, appVars>>

NextSample == SampleStep

SpecSample == InitSample /\ [][NextSample]_vars

\* The pixel of the iteration is scored: it passed the transparency test.
Scored == sample # None /\ sample[1].after # None /\ sample[1].px.a >= 128

ScoreOfSample == isSkinPixel(sample[1].px.r, sample[1].px.g, sample[1].px.b)

\* C13: a pixel scored 0.5 or 0.0 leaves the sums and the skin count as
\* they were; a pixel scored 0.7 or 0.9 adds its R, G, B and (R+G+B)/3 to
\* the sums and one to the count.
C13_AccumulatedOnlyAboveThreshold ==
    Scored
        => LET a == sample[1].before
               px == sample[1].px
               out == sample[1].after[1]
           IN  /\ ScoreOfSample \in {RInt(0), Rat(1, 2)} => out = a
               /\ ScoreOfSample \in {Rat(7, 10), Rat(9, 10)}
                    => /\ out.totalR = a.totalR + px.r
                       /\ out.totalG = a.totalG + px.g
                       /\ out.totalB = a.totalB + px.b
                       /\ out.totalBrightness
                            = RatAdd(a.totalBrightness, Rat(px.r + px.g + px.b, 3))
                       /\ out.skinPixelCount = a.skinPixelCount + 1

\* C13 witness: an opaque pixel scored 0.5 has left a non-empty accumulator
\* as it was.
C13_Witness ==
    /\ Scored
    /\ ScoreOfSample = Rat(1, 2)
    /\ sample[1].before.skinPixelCount > 0
    /\ sample[1].after[1] = sample[1].before

----------------------------------------------------------------------------
(* calculatePallorIndex applied to averages (specification SpecPallor) *)

\* The arguments are averages, so they need not be integers: the grids hold
\* twice the value of each argument.  Red and brightness lie on both sides
\* of 200 and 220, where the two max(0, ...) terms reach 0.
TwiceRed == {0, 200, 399, 400, 401, 440, 510}
TwiceGreen == {0, 200, 340, 510}
TwiceBlue == {0, 280, 510}
TwiceBrightness == {0, 200, 353, 439, 440, 441, 510}

InitPallor ==
    /\ IdleRun /\ IdleCalls
    /\ skin = None /\ sample = None /\ cam = None /\ validation = None /\ IdlePage /\ IdleApp
    /\ \E r2 \in TwiceRed, g2 \in TwiceGreen, b2 \in TwiceBlue, br2 \in TwiceBrightness :
           pallor = Some([r2 |-> r2, g2 |-> g2, b2 |-> b2, br2 |-> br2, out |-> None])

CalculatePallorIndex ==
    /\ pallor # None /\ pallor[1].out = None
    /\ pallor' = Some([pallor[1] EXCEPT
                          !.out = Some(calculatePallorIndex(Rat(pallor[1].r2, 2),
                                                            Rat(pallor[1].g2, 2),
                                                            Rat(pallor[1].b2, 2),
                                                            Rat(pallor[1].br2, 2)))])
    /\ UNCHANGED <<img, pc, acc, result, hb, risk, callVars, skin, sample, cam, validation, pageVars, appVars>>

NextPallor == CalculatePallorIndex

SpecPallor == InitPallor /\ [][NextPallor]_vars

NonNegative(x) == IF x < 0 THEN 0 ELSE x

\* C15: calculatePallorIndex returns
\*   0.5*max(0,(200-avgR)/200) + 0.3*max(0,(220-avgBrightness)/220)
\*     + 0.2*(1-|avgR-avgG|/255),
\* whatever avgB is.  With the arguments r2/2, g2/2, br2/2 the three terms
\* over the common denominator 448800 are
\*   561*max(0, 400-r2), 306*max(0, 440-br2), 176*(510-|r2-g2|).
C15_PallorIndexFormula ==
    (pallor # None /\ pallor[1].out # None)
        => LET r2 == pallor[1].r2
               g2 == pallor[1].g2
               br2 == pallor[1].br2
               balance2 == IF r2 >= g2 THEN r2 - g2 ELSE g2 - r2
           IN  pallor[1].out[1]
                   = Rat(561 * NonNegative(400 - r2) + 306 * NonNegative(440 - br2)
                           + 176 * (510 - balance2),
                         448800)

\* C15 witness: red above 200 and brightness above 220, so that both
\* max(0, ...) terms are 0, with blue at the other end of its range than
\* red and green.
C15_Witness ==
    /\ pallor # None /\ pallor[1].out # None
    /\ pallor[1].r2 = 440 /\ pallor[1].g2 = 340 /\ pallor[1].b2 = 0
    /\ pallor[1].br2 = 441
    /\ pallor[1].out[1] = Rat(176 * 410, 448800)

----------------------------------------------------------------------------
(* estimateHemoglobin as a clamped linear form (specification SpecHemoglobin) *)

\* C16: estimateHemoglobin returns 14.0 + (avgR/255)*4.0 - pallorIndex*6.0
\* clamped to [4.0, 18.0], also for a pallorIndex outside [0, 1].  With
\* avgR = rn/rd and pallorIndex = pn/pd the unclamped value is N/D for
\* D = 255*rd*pd and N = 14*D + 4*rn*pd - 6*255*pn*rd.
C16_HemoglobinIsClampedLinear ==
    hb # None
        => LET rn == hb[1].r.n
               rd == hb[1].r.d
               pn == hb[1].pallorIndex.n
               pd == hb[1].pallorIndex.d
               D == 255 * rd * pd
               N == 14 * D + 4 * rn * pd - 6 * 255 * pn * rd
           IN  /\ hb[1].out = IF N < 4 * D THEN RInt(4)
                              ELSE IF N > 18 * D THEN RInt(18)
                              ELSE Rat(N, D)
               /\ RatGe(hb[1].out, RInt(4)) /\ RatLe(hb[1].out, RInt(18))

\* C16 witness: a pallorIndex above 1 whose unclamped value 14 + 2 - 18 is
\* below the floor, returned as 4.0.
C16_Witness ==
    /\ hb # None
    /\ hb[1].pallorIndex = RInt(3)
    /\ hb[1].r = Rat(255, 2)
    /\ hb[1].out = RInt(4)

----------------------------------------------------------------------------
(* generateGradCAM applied to a canvas and a list (specification SpecGradCam) *)

\* Longest list of focus areas: one more than the nine cells of the grid.
MaxFocusAreas == 10

\* Canvas widths and heights, some not divisible by 3.
CanvasSizes == {1, 3, 4, 300}

FocusLists ==
    { [i \in 1..n |-> 10 * i] : n \in 0..MaxFocusAreas }
    \cup { branchFocusAreas(Tiers[k]) : k \in DOMAIN Tiers }

InitGradCam ==
    /\ IdleRun /\ IdleCalls
    /\ skin = None /\ sample = None /\ pallor = None /\ validation = None /\ IdlePage /\ IdleApp
    /\ \E w \in CanvasSizes, h \in CanvasSizes, f \in FocusLists :
           cam = Some([width |-> w, height |-> h, focusAreas |-> f, out |-> None])

GenerateGradCAM ==
    /\ cam # None /\ cam[1].out = None
    /\ cam' = Some([cam[1] EXCEPT
                       !.out = Some(generateGradCAM(cam[1].width, cam[1].height,
                                                    cam[1].focusAreas))])
    /\ UNCHANGED <<img, pc, acc, result, hb, risk, callVars, skin, sample, pallor, validation, pageVars, appVars>>

NextGradCam == GenerateGradCAM

SpecGradCam == InitGradCam /\ [][NextGradCam]_vars

Rendered == cam # None /\ cam[1].out # None

\* The rectangle of a drawn gradient lies inside the canvas.
InsideCanvas(c, width, height) ==
    /\ c.x3 >= 0 /\ c.x3 + c.w3 <= 3 * width
    /\ c.y3 >= 0 /\ c.y3 + c.h3 <= 3 * height

\* The rectangle of a drawn gradient has no point inside the canvas.
OutsideCanvas(c, width, height) ==
    \/ c.x3 >= 3 * width \/ c.x3 + c.w3 <= 0
    \/ c.y3 >= 3 * height \/ c.y3 + c.h3 <= 0

\* Entry i (from 0) is drawn in column i mod 3 and row i div 3 of the grid
\* of cells one third of the canvas wide and high.
PlacedByIndex(cells, width, height) ==
    \A k \in DOMAIN cells :
        /\ cells[k].col = (k - 1) % 3 /\ cells[k].row = (k - 1) \div 3
        /\ cells[k].x3 = cells[k].col * width /\ cells[k].y3 = cells[k].row * height
        /\ cells[k].w3 = width /\ cells[k].h3 = height

NoSharedCell(cells) ==
    \A j \in DOMAIN cells, k \in DOMAIN cells :
        (cells[j].col = cells[k].col /\ cells[j].row = cells[k].row) => j = k

----------------------------------------------------------------------------
(* validateSkinImage (specification SpecValidate) *)

\* The answer of the external validator, as far as validateSkinImage reads
\* it.  kind is
\*   "networkError"  fetch rejects
\*   "notOk"         response.ok is false
\*   "jsonThrows"    response.json() rejects
\*   "noText"        candidates[0].content.parts[0].text is missing or ''
\*   "json"          the text holds {...} that JSON.parse accepts: answer
\*   "text"          the text holds no {...} that JSON.parse accepts
\* A field of the parsed object that is missing (undefined) is None.  Of a
\* text only what the fallback reads is kept: whether it contains 'true',
\* whether it contains 'valid', and the digits before the first '%'.
NoAnswer ==
    [isValid |-> None, skinPercentage |-> None, reason |-> None,
     imageQuality |-> None, hasProperLighting |-> None]

NoText == [hasTrue |-> FALSE, hasValid |-> FALSE, percent |-> None]

FailureKinds == {"networkError", "notOk", "jsonThrows", "noText"}

Percentages == {0, 29, 30, 80}

Answers ==
    [ isValid           : {None, Some(TRUE), Some(FALSE)},
      skinPercentage    : {None} \cup { Some(n) : n \in Percentages },
      reason            : {None, Some("reason of the validator")},
      imageQuality      : {None, Some("poor"), Some("fair"), Some("good")},
      hasProperLighting : {None, Some(TRUE), Some(FALSE)} ]

Texts ==
    [ hasTrue  : BOOLEAN,
      hasValid : BOOLEAN,
      percent  : {None} \cup { Some(n) : n \in Percentages } ]

Responses ==
    [kind : FailureKinds, answer : {NoAnswer}, text : {NoText}]
    \cup [kind : {"json"}, answer : Answers, text : {NoText}]
    \cup [kind : {"text"}, answer : {NoAnswer}, text : Texts]

\* A value in a condition: undefined and false are falsy, true is truthy.
Truthy(v) == v = Some(TRUE)

\* The catch block of the inner try: the fallback parsing of the text.
fallbackAnalysis(text) ==
    LET isValidMatch == text.hasTrue /\ text.hasValid
    IN  [ isValid           |-> Some(isValidMatch /\ (IF text.percent # None
                                                      THEN text.percent[1] >= 30
                                                      ELSE FALSE)),
          skinPercentage    |-> IF text.percent # None THEN text.percent ELSE Some(0),
          reason            |-> IF isValidMatch THEN None ELSE Some("validation failed"),
          imageQuality      |-> Some("unknown"),
          hasProperLighting |-> Some(FALSE) ]

\* The additional strict validation and the final return.  A missing
\* skinPercentage compares as undefined < 30, which is false.
strictValidation(analysis) ==
    IF Truthy(analysis.isValid)
    THEN IF analysis.skinPercentage # None /\ analysis.skinPercentage[1] < 30
         THEN [isValid |-> Some(FALSE), reason |-> Some("insufficient skin area"),
               skinPercentage |-> analysis.skinPercentage]
         ELSE IF analysis.imageQuality = Some("poor")
         THEN [isValid |-> Some(FALSE), reason |-> Some("image quality too poor"),
               skinPercentage |-> analysis.skinPercentage]
         ELSE IF ~Truthy(analysis.hasProperLighting)
         THEN [isValid |-> Some(FALSE), reason |-> Some("inadequate lighting"),
               skinPercentage |-> analysis.skinPercentage]
         ELSE [isValid |-> analysis.isValid, reason |-> analysis.reason,
               skinPercentage |-> analysis.skinPercentage]
    ELSE [isValid |-> analysis.isValid, reason |-> analysis.reason,
          skinPercentage |-> analysis.skinPercentage]

\* The value returned by the outer catch block.
UnableToValidate ==
    [isValid |-> Some(FALSE), reason |-> Some("unable to validate"),
     skinPercentage |-> Some(0)]

\* Mutant: the outer catch block rethrows.
settleCaughtRethrow(error) == [settled |-> "rejected", value |-> UnableToValidate]

\* catch (error) { console.error(...); return {...} }
settleCaught(error) == [settled |-> "fulfilled", value |-> UnableToValidate]

\* The try block from the parsing of the text on.
settleParsed(response) ==
    [ settled |-> "fulfilled",
      value   |-> strictValidation(IF response.kind = "json"
                                   THEN response.answer
                                   ELSE fallbackAnalysis(response.text)) ]

\* How the promise of validateSkinImage settles.
validateSkinImage(response) ==
    IF response.kind \in FailureKinds
    THEN settleCaught(response.kind)
    ELSE settleParsed(response)

InitValidate ==
    /\ IdleRun /\ IdleCalls /\ IdleFns /\ IdlePage /\ IdleApp
    /\ \E response \in Responses :
           validation = Some([response |-> response, out |-> None])

ValidateSkinImage ==
    /\ validation # None /\ validation[1].out = None
    /\ validation' = Some([validation[1] EXCEPT
                              !.out = Some(validateSkinImage(validation[1].response))])
    /\ UNCHANGED <<img, pc, acc, result, hb, risk, callVars, fnVars, pageVars, appVars>>

NextValidate == ValidateSkinImage

SpecValidate == InitValidate /\ [][NextValidate]_vars

Validated == validation # None /\ validation[1].out # None

\* The call failed: the request failed, the status was not OK, the body or
\* the text was missing, or the parsing of the text raised an exception.
ValidatorFailed ==
    \/ validation[1].response.kind \in FailureKinds
    \/ validation[1].response.kind = "text"

\* C20 as stated: after every failure of the call, an exception in the
\* parsing of the answer included, validateSkinImage returns isValid = false
\* with a reason and skinPercentage 0, and does not throw.
C20_FailsClosedWithReason ==
    Validated
        => /\ validation[1].out[1].settled = "fulfilled"
           /\ ValidatorFailed
                => /\ validation[1].out[1].value.isValid = Some(FALSE)
                   /\ validation[1].out[1].value.reason # None
                   /\ validation[1].out[1].value.skinPercentage = Some(0)

\* C20 as amended: validateSkinImage never throws; after a network error, a
\* non-OK status, a failing body or an empty text it returns isValid = false
\* with the fixed reason and skinPercentage 0; when the text is not JSON it
\* returns isValid = false, with the percentage read from the text (0 when
\* there is none) and with a reason unless the text contains 'true' and
\* 'valid' and names no percentage of 30 or more.
C20_FailsClosed ==
    Validated
        => LET response == validation[1].response
               value == validation[1].out[1].value
           IN  /\ validation[1].out[1].settled = "fulfilled"
               /\ response.kind \in FailureKinds => value = UnableToValidate
               /\ response.kind = "text"
                    => /\ value.isValid = Some(FALSE)
                       /\ value.skinPercentage
                            = (IF response.text.percent = None THEN Some(0)
                               ELSE response.text.percent)
                       /\ value.reason = None
                            <=> /\ response.text.hasTrue /\ response.text.hasValid
                                /\ \/ response.text.percent = None
                                   \/ response.text.percent[1] < 30

\* C20 witness: a text that is not JSON, says 'valid' and 'true' and names
\* 80%, rejected for its lighting with skinPercentage 80.
C20_Witness ==
    /\ Validated
    /\ validation[1].response.kind = "text"
    /\ validation[1].response.text = [hasTrue |-> TRUE, hasValid |-> TRUE, percent |-> Some(80)]
    /\ validation[1].out[1].value.isValid = Some(FALSE)
    /\ validation[1].out[1].value.skinPercentage = Some(80)

----------------------------------------------------------------------------
(* The analysis page (specification SpecPage) *)

\* Files the user can select.  A preview is named by the file whose data
\* URL it is.
ValidFiles == {"a", "b", "c"}
InvalidFiles == {"notAnImage"}

\* The image behind the data URL of a file: "a" holds skin, "b" cannot be
\* read back from the canvas, "c" is transparent.
ImageOfFile(f) ==
    IF f = "a" THEN [outcome |-> "ok", pixels |-> <<MidTone>>]
    ELSE IF f = "b" THEN [outcome |-> "readThrows", pixels |-> <<ClearZero>>]
    ELSE [outcome |-> "ok", pixels |-> <<ClearMid>>]

\* The answers of the validator during a run: approvals, rejections by the
\* validator and by the strict checks, an answer without isValid, a text
\* that is not JSON, and a failed request.
GoodAnswer ==
    [isValid |-> Some(TRUE), skinPercentage |-> Some(80), reason |-> None,
     imageQuality |-> Some("good"), hasProperLighting |-> Some(TRUE)]

PageResponses ==
    { [kind |-> "json", answer |-> GoodAnswer, text |-> NoText],
      [kind |-> "json", answer |-> [GoodAnswer EXCEPT !.skinPercentage = Some(29)],
       text |-> NoText],
      [kind |-> "json",
       answer |-> [GoodAnswer EXCEPT !.isValid = Some(FALSE),
                                     !.reason = Some("reason of the validator")],
       text |-> NoText],
      [kind |-> "json", answer |-> [GoodAnswer EXCEPT !.isValid = None], text |-> NoText],
      [kind |-> "text", answer |-> NoAnswer,
       text |-> [hasTrue |-> TRUE, hasValid |-> TRUE, percent |-> Some(29)]],
      [kind |-> "networkError", answer |-> NoAnswer, text |-> NoText] }

\* validateImageFile: the error message, or null.
validateImageFile(file) ==
    IF file \in InvalidFiles THEN Some("invalid image file") ELSE None

\* useState initial values.
InitialPage ==
    [ currentStep      |-> "capture",
      selectedImage    |-> None,
      imagePreview     |-> None,
      analysisProgress |-> 0,
      analysisResult   |-> None,
      isAnalyzing      |-> FALSE,
      validationError  |-> None ]

\* No invocation of runAnalysis yet.  imageData is the imagePreview the
\* invocation closed over; validated and analysed record the arguments and
\* the outcome of its calls of validateSkinImage and analyzeAnemiaFromImage.
NoRun ==
    [ pc |-> "idle", imageData |-> None, validated |-> None, analysed |-> None,
      result |-> None ]

InitPage ==
    /\ IdleRun /\ IdleCalls /\ IdleFns /\ validation = None
    /\ page = InitialPage
    /\ run = NoRun
    /\ readers = {}
    /\ IdleApp

\* The upload, drop and camera controls are rendered in the capture view
\* while there is no preview.
HandleImageSelection ==
    /\ page.currentStep = "capture" /\ page.imagePreview = None
    /\ \E file \in ValidFiles \cup InvalidFiles :
           IF validateImageFile(file) # None
           THEN /\ page' = [page EXCEPT !.validationError = validateImageFile(file)]
                /\ UNCHANGED readers
           ELSE /\ page' = [page EXCEPT !.validationError = None,
                                        !.selectedImage = Some(file)]
                /\ readers' = readers \cup {file}
    /\ UNCHANGED <<img, pc, acc, result, hb, risk, callVars, fnVars, validation, run, appVars>>

\* reader.onload = (e) => setImagePreview(e.target.result)
ReaderOnload ==
    /\ \E file \in readers :
           /\ page' = [page EXCEPT !.imagePreview = Some(file)]
           /\ readers' = readers \ {file}
    /\ UNCHANGED <<img, pc, acc, result, hb, risk, callVars, fnVars, validation, run, appVars>>

\* The X button over the preview.
RemoveImage ==
    /\ page.currentStep = "capture" /\ page.imagePreview # None
    /\ page' = [page EXCEPT !.selectedImage = None,
                            !.imagePreview = None,
                            !.validationError = None]
    /\ UNCHANGED <<img, pc, acc, result, hb, risk, callVars, fnVars, validation, run, readers, appVars>>

\* Mutant: an answer passes unless it says isValid: false.
validationPassedUnlessFalse(value) == value.isValid # Some(FALSE)

\* if (!validation.isValid) ... return
validationPassed(value) == Truthy(value.isValid)

\* runAnalysis up to its first await.  The button is rendered in the
\* capture view and disabled without a selected image; without a preview
\* the function returns at once.
RunAnalysis ==
    /\ page.currentStep = "capture" /\ run.pc \in {"idle", "done"}
    /\ page.selectedImage # None /\ page.imagePreview # None
    /\ page' = [page EXCEPT !.isAnalyzing = TRUE,
                            !.currentStep = "validation",
                            !.analysisProgress = 15]
    /\ run' = [NoRun EXCEPT !.pc = "validating", !.imageData = page.imagePreview]
    /\ UNCHANGED <<img, pc, acc, result, hb, risk, callVars, fnVars, validation, readers, appVars>>

\* Mutant: the rejection branch also drops the selected image and its
\* preview, as resetAnalysis does.
ValidationReturnsClearing ==
    /\ run.pc = "validating"
    /\ \E response \in PageResponses :
           LET value == validateSkinImage(response).value
           IN  IF ~validationPassed(value)
               THEN /\ page' = [page EXCEPT
                                   !.validationError =
                                       IF value.reason # None THEN value.reason
                                       ELSE Some("Image validation failed"),
                                   !.currentStep = "capture",
                                   !.isAnalyzing = FALSE,
                                   !.selectedImage = None,
                                   !.imagePreview = None]
                    /\ run' = [run EXCEPT !.pc = "done",
                                          !.validated = Some([image |-> run.imageData,
                                                              isValid |-> FALSE,
                                                              reason |-> value.reason])]
               ELSE /\ page' = [page EXCEPT !.analysisProgress = 35]
                    /\ run' = [run EXCEPT !.pc = "pause800",
                                          !.validated = Some([image |-> run.imageData,
                                                              isValid |-> value.isValid = Some(TRUE),
                                                              reason |-> value.reason])]
    /\ UNCHANGED <<img, pc, acc, result, hb, risk, callVars, fnVars, validation, readers, appVars>>

\* validateSkinImage has returned: the rejection branch, or the steps up to
\* the first timer.
ValidationReturns ==
    /\ run.pc = "validating"
    /\ \E response \in PageResponses :
           LET value == validateSkinImage(response).value
           IN  /\ validateSkinImage(response).settled = "fulfilled"
               /\ IF ~validationPassed(value)
                  THEN /\ page' = [page EXCEPT
                                      !.validationError =
                                          IF value.reason # None THEN value.reason
                                          ELSE Some("Image validation failed"),
                                      !.currentStep = "capture",
                                      !.isAnalyzing = FALSE]
                       /\ run' = [run EXCEPT !.pc = "done",
                                             !.validated = Some([image |-> run.imageData,
                                                                 isValid |-> FALSE,
                                                                 reason |-> value.reason])]
                  ELSE /\ page' = [page EXCEPT !.analysisProgress = 35]
                       /\ run' = [run EXCEPT !.pc = "pause800",
                                             !.validated = Some([image |-> run.imageData,
                                                                 isValid |-> value.isValid = Some(TRUE),
                                                                 reason |-> value.reason])]
    /\ UNCHANGED <<img, pc, acc, result, hb, risk, callVars, fnVars, validation, readers, appVars>>

\* After the first timer: step 'inference' and the call of
\* analyzeAnemiaFromImage(imagePreview).
StartInference ==
    /\ run.pc = "pause800"
    /\ page' = [page EXCEPT !.currentStep = "inference", !.analysisProgress = 50]
    /\ run' = [run EXCEPT !.pc = "analyzing", !.analysed = Some(run.imageData)]
    /\ UNCHANGED <<img, pc, acc, result, hb, risk, callVars, fnVars, validation, readers, appVars>>

\* What a call of analyzeAnemiaFromImage on the data of each file can come
\* to, over the values of Math.random.
AnalysisOutcomes ==
    [f \in ValidFiles |->
        { onloadOutcome(ImageOfFile(f), EmptyAcc, rnd) : rnd \in Jitters }]

\* The promise of analyzeAnemiaFromImage resolves.  When img.onload throws
\* (pc "uncaught") the promise stays pending and the run stays here.
AnalysisResolves ==
    /\ run.pc = "analyzing"
    /\ \E o \in AnalysisOutcomes[run.analysed[1][1]] :
           /\ o.pc = "resolved"
           /\ run' = [run EXCEPT !.pc = "pause1200", !.result = o.result]
    /\ page' = [page EXCEPT !.analysisProgress = 75]
    /\ UNCHANGED <<img, pc, acc, result, hb, risk, callVars, fnVars, validation, readers, appVars>>

\* After the second timer.
ResultsProcessing ==
    /\ run.pc = "pause1200"
    /\ page' = [page EXCEPT !.analysisProgress = 90]
    /\ run' = [run EXCEPT !.pc = "pause800b"]
    /\ UNCHANGED <<img, pc, acc, result, hb, risk, callVars, fnVars, validation, readers, appVars>>

\* After the third timer: the results are shown; finally.
Complete ==
    /\ run.pc = "pause800b"
    /\ page' = [page EXCEPT !.analysisProgress = 100,
                            !.analysisResult = run.result,
                            !.currentStep = "results",
                            !.isAnalyzing = FALSE]
    /\ run' = [run EXCEPT !.pc = "done"]
    /\ UNCHANGED <<img, pc, acc, result, hb, risk, callVars, fnVars, validation, readers, appVars>>

\* Mutant: the reset leaves the shown result in place.
ResetAnalysisKeepsResult ==
    /\ page.currentStep = "results" /\ page.analysisResult # None
    /\ page' = [page EXCEPT !.currentStep = "capture",
                            !.selectedImage = None,
                            !.imagePreview = None,
                            !.analysisProgress = 0,
                            !.validationError = None]
    /\ UNCHANGED <<img, pc, acc, result, hb, risk, callVars, fnVars, validation, run, readers, appVars>>

\* The 'Analyze another image' button of the results view.
ResetAnalysis ==
    /\ page.currentStep = "results" /\ page.analysisResult # None
    /\ page' = [page EXCEPT !.currentStep = "capture",
                            !.selectedImage = None,
                            !.imagePreview = None,
                            !.analysisResult = None,
                            !.analysisProgress = 0,
                            !.validationError = None]
    /\ UNCHANGED <<img, pc, acc, result, hb, risk, callVars, fnVars, validation, run, readers, appVars>>

NextPage ==
    \/ HandleImageSelection
    \/ ReaderOnload
    \/ RemoveImage
    \/ RunAnalysis
    \/ ValidationReturns
    \/ StartInference
    \/ AnalysisResolves
    \/ ResultsProcessing
    \/ Complete
    \/ ResetAnalysis

SpecPage == InitPage /\ [][NextPage]_vars

\* The validator approved, in this run, the image the run closed over.
ValidationPassedForRunImage ==
    /\ run.validated # None
    /\ run.validated[1].isValid
    /\ run.validated[1].image = run.imageData

----------------------------------------------------------------------------
(* The strict checks of validateSkinImage (specification SpecValidate) *)

\* C21: validateSkinImage returns isValid = true only when the answer of
\* the validator reports a skin percentage of at least 30, an image quality
\* other than 'poor' and proper lighting, also when the answer lacks one of
\* these fields.
C21_ValidOnlyWhenStrictChecksPass ==
    (Validated /\ validation[1].out[1].value.isValid = Some(TRUE))
        => LET answer == validation[1].response.answer
           IN  /\ validation[1].response.kind = "json"
               /\ answer.skinPercentage # None
               /\ answer.skinPercentage[1] >= 30
               /\ answer.imageQuality # Some("poor")
               /\ answer.hasProperLighting = Some(TRUE)

----------------------------------------------------------------------------
(* Properties of the analysis page (specification SpecPage) *)

\* The step in which runAnalysis takes its rejection branch.
RejectionStep == run.pc = "validating" /\ run'.pc = "done"

FrameOfRejection ==
    /\ page'.currentStep = "capture"
    /\ page'.isAnalyzing = FALSE
    /\ page'.analysisResult = page.analysisResult
    /\ page'.selectedImage = page.selectedImage
    /\ page'.imagePreview = page.imagePreview

\* C23 as stated: when the validator rejects the image, runAnalysis returns
\* the page to 'capture' with isAnalyzing = false and validationError set to
\* the reason of the rejection, and leaves analysisResult, selectedImage and
\* imagePreview unchanged.
C23_RejectionSetsReason ==
    [][RejectionStep
         => /\ FrameOfRejection
            /\ page'.validationError = run'.validated[1].reason]_vars

\* C23 as amended: as stated, with validationError set to the reason of the
\* rejection when the validator gave one and to 'Image validation failed'
\* when it gave none.
C23_RejectionSetsReasonOrDefault ==
    [][RejectionStep
         => /\ FrameOfRejection
            /\ page'.validationError =
                   (IF run'.validated[1].reason # None THEN run'.validated[1].reason
                    ELSE Some("Image validation failed"))]_vars

\* C23 witness: a rejection without a reason has returned the page to
\* 'capture' with the default message, the selection and its preview kept.
C23_Witness ==
    /\ run.pc = "done"
    /\ run.validated # None /\ ~run.validated[1].isValid
    /\ run.validated[1].reason = None
    /\ page.currentStep = "capture" /\ ~page.isAnalyzing
    /\ page.validationError = Some("Image validation failed")
    /\ page.selectedImage # None /\ page.imagePreview = run.imageData

\* The steps of a run that the event loop takes without the user: the fetch
\* of the validator settles, the timers fire, a settled promise is followed.
RunStep ==
    \/ ValidationReturns
    \/ StartInference
    \/ AnalysisResolves
    \/ ResultsProcessing
    \/ Complete

\* The page with the scheduling of the event loop: a step of the run that
\* stays possible is taken.
SpecPageFair == SpecPage /\ WF_vars(RunStep)

RunInFlight == run.pc \notin {"idle", "done"}

RunFinished ==
    /\ run.pc = "done"
    /\ page.isAnalyzing = FALSE
    /\ page.currentStep \in {"capture", "results"}

\* C24: every run of runAnalysis that starts eventually finishes with
\* isAnalyzing = false and currentStep 'capture' or 'results'.
C24_RunEventuallyFinishes == RunInFlight ~> RunFinished

\* The values runAnalysis gives to analysisProgress.
ProgressValues == {0, 15, 35, 50, 75, 90, 100}

ResultsShown ==
    page.currentStep = "results"
        => page.analysisResult # None /\ page.analysisProgress = 100

\* A step taken while a run is in flight, its first step included.
StepOfRun == RunInFlight \/ RunInFlight'

\* The step of resetAnalysis: the only one that leaves the results view.
ResetStep == page.currentStep = "results" /\ page'.currentStep = "capture"

\* C25: in every reachable state of the page currentStep = 'results' implies
\* a non-null analysisResult and analysisProgress = 100; within one run
\* analysisProgress never decreases and takes the values 0, 15, 35, 50, 75,
\* 90, 100; resetAnalysis returns the page to 'capture' with no result,
\* progress 0, no selected image and no validation error.
C25_ResultsProgressAndReset ==
    /\ []ResultsShown
    /\ [][StepOfRun
            => /\ page'.analysisProgress >= page.analysisProgress
               /\ page'.analysisProgress \in ProgressValues]_vars
    /\ [][ResetStep
            => /\ page'.analysisResult = None
               /\ page'.analysisProgress = 0
               /\ page'.selectedImage = None
               /\ page'.validationError = None]_vars

\* C25 witness: a run has gone through to the results and resetAnalysis has
\* brought the page back to an empty capture step.
C25_Witness ==
    /\ run.pc = "done" /\ run.result # None
    /\ page.currentStep = "capture"
    /\ page.analysisResult = None /\ page.analysisProgress = 0
    /\ page.selectedImage = None /\ page.validationError = None

\* C26: after any sequence of image selections and any completion order of
\* their FileReader loads, once the loads have completed the preview shown
\* (the data runAnalysis validates and analyses) is the data of the currently
\* selected image.
C26_PreviewIsSelectedImage ==
    (readers = {} /\ page.imagePreview # None)
        => page.imagePreview = page.selectedImage

----------------------------------------------------------------------------
(* The tier of the pipeline (specification SpecTier) *)

TDen == 20

\* pallorIndex values of [0, 1]: a grid, and values next to the thresholds
\* of the cascade on either side.
UnitPallorInputs ==
    { Rat(k, TDen) : k \in 0..TDen }
    \cup { Rat(199, 1000), Rat(201, 1000), Rat(399, 1000), Rat(401, 1000),
           Rat(599, 1000), Rat(601, 1000) }

\* The two calls of analyzeAnemiaFromImage that follow calculatePallorIndex.
pipelineAssessment(avgR, avgG, avgB, pallorIndex, rnd) ==
    LET hemoglobinEstimate == estimateHemoglobin(avgR, avgG, avgB, pallorIndex)
    IN  [ hemoglobinEstimate |-> hemoglobinEstimate,
          riskAssessment     |-> assessAnemiaRisk(pallorIndex, hemoglobinEstimate,
                                                  avgR, avgG, avgB, rnd) ]

InitTier ==
    /\ IdleRun /\ IdleCalls /\ IdleFns /\ validation = None /\ IdlePage /\ IdleApp

AssessPipeline ==
    /\ \E r \in RedInputs, p \in UnitPallorInputs, rnd \in Jitters :
           risk' = Some([pallorIndex |-> p, r |-> r, rnd |-> rnd,
                         out |-> pipelineAssessment(r, r, r, p, rnd)])
    /\ UNCHANGED <<img, pc, acc, result, hb, more>>

NextTier == AssessPipeline

SpecTier == InitTier /\ [][NextTier]_vars

\* The tier read off the pallor index alone.
tierOfPallor(pallorIndex) ==
    IF RatLt(pallorIndex, Rat(2, 10)) THEN "Normal"
    ELSE IF RatLt(pallorIndex, Rat(4, 10)) THEN "Mild Risk"
    ELSE IF RatLt(pallorIndex, Rat(6, 10)) THEN "High Risk"
    ELSE "Severe Risk"

\* C28: for every avgR in [0, 255] and pallorIndex in [0, 1], with
\* hemoglobinEstimate = estimateHemoglobin(avgR, pallorIndex), the hemoglobin
\* part of each tier condition is implied by its pallor part, and the tier is
\* Normal iff pallorIndex < 0.2, Mild Risk iff 0.2 <= pallorIndex < 0.4, High
\* Risk iff 0.4 <= pallorIndex < 0.6, Severe Risk iff pallorIndex >= 0.6.
C28_TierDeterminedByPallor ==
    risk # None
        => LET p  == risk[1].pallorIndex
               h  == risk[1].out.hemoglobinEstimate
           IN  /\ RatLt(p, Rat(2, 10)) => RatGe(h, RInt(12))
               /\ RatLt(p, Rat(4, 10)) => RatGe(h, RInt(10))
               /\ RatLt(p, Rat(6, 10)) => RatGe(h, RInt(8))
               /\ risk[1].out.riskAssessment.result = tierOfPallor(p)

\* C28 witness: the darkest average with a pallor index just under 0.2 is
\* assessed Normal, the hemoglobin estimate being 12.806.
C28_Witness ==
    /\ risk # None
    /\ risk[1].r = RInt(0)
    /\ risk[1].pallorIndex = Rat(199, 1000)
    /\ risk[1].out.hemoglobinEstimate = Rat(12806, 1000)
    /\ risk[1].out.riskAssessment.result = "Normal"

----------------------------------------------------------------------------
(* The accumulated averages (specification SpecAverages) *)

\* The pixel the loop samples second.
SeedTones == {MidTone, PaleTone}

\* Rasters of five pixels: the loop samples the first, an opaque colour of
\* the grid, and the fifth, a skin tone.
AverageImages ==
    { [outcome |-> "ok",
       pixels  |-> <<Px(r, g, b, 255), ClearZero, ClearZero, ClearZero, seed>>] :
          r \in Channels, g \in Channels, b \in Channels, seed \in SeedTones }
    \cup [outcome : Outcomes \ {"ok"}, pixels : {<<ClearZero>>}]

InitAverages ==
    /\ img \in AverageImages
    /\ pc = "loading"
    /\ acc = None /\ result = None
    /\ hb = None /\ risk = None
    /\ IdleCalls /\ IdleFns /\ validation = None /\ IdlePage /\ IdleApp

SpecAverages == InitAverages /\ [][Next]_vars

\* C29: isSkinPixel returns a score greater than 0.6 if and only if the RGB
\* heuristic holds, so that the hue, saturation and value tests never change
\* which pixels are accumulated, and every accumulated average satisfies
\* avgR > 95, avgR > avgG and avgR > avgB.
C29_AccumulatedIffRgbCheck ==
    acc # None
        => LET first == img.pixels[1]
               seed  == img.pixels[5]
               k     == acc[1].skinPixelCount
               byRgb(px) == IF rgbSkinCheck(px.r, px.g, px.b) THEN 1 ELSE 0
           IN  /\ countsAsSkin(isSkinPixel(first.r, first.g, first.b))
                    <=> rgbSkinCheck(first.r, first.g, first.b)
               /\ k = byRgb(first) + byRgb(seed)
               /\ acc[1].totalR = byRgb(first) * first.r + byRgb(seed) * seed.r
               /\ k > 0 => /\ acc[1].totalR > 95 * k
                           /\ acc[1].totalR > acc[1].totalG
                           /\ acc[1].totalR > acc[1].totalB

\* C29 witness: a colour that passes the RGB heuristic and fails the value
\* range (score 0.7), and a seed, were both accumulated.
C29_Witness ==
    /\ acc # None
    /\ img.pixels[1] = Px(255, 220, 170, 255)
    /\ isSkinPixel(255, 220, 170) = Rat(7, 10)
    /\ acc[1].skinPixelCount = 2
    /\ acc[1].totalR = 255 + img.pixels[5].r

----------------------------------------------------------------------------
(* The range of the pallor index (specification SpecPallor) *)

\* The riskScore values of the results that the pipeline can build from
\* the averages and the pallor index of the state.
RiskScoresOfPallor ==
    { pipelineAssessment(Rat(pallor[1].r2, 2), Rat(pallor[1].g2, 2),
                         Rat(pallor[1].b2, 2), pallor[1].out[1],
                         rnd).riskAssessment.riskScore : rnd \in Jitters }

\* C30: for all averages in [0, 255] calculatePallorIndex returns a value in
\* [0, 1], and the riskScore of the result built from it is within 0..100.
C30_PallorIndexInUnitInterval ==
    (pallor # None /\ pallor[1].out # None)
        => /\ RatGe(pallor[1].out[1], RInt(0))
           /\ RatLe(pallor[1].out[1], RInt(1))
           /\ RiskScoresOfPallor \subseteq 0..100

\* C30 witness: with no red, no green and no brightness the index is 1 and
\* the riskScore 100.
C30_Witness ==
    /\ pallor # None /\ pallor[1].out = Some(RInt(1))
    /\ pallor[1].r2 = 0 /\ pallor[1].g2 = 0 /\ pallor[1].br2 = 0
    /\ RiskScoresOfPallor = {100}

----------------------------------------------------------------------------
(* The application shell (specification SpecApp) *)

\* The user objects of AuthProvider: the one the listener builds from the
\* Firebase user (no isGuest field), the mock GitHub user, the guest.
FirebaseUser == [kind |-> "firebase", isGuest |-> FALSE]
GithubUser   == [kind |-> "github", isGuest |-> FALSE]
GuestUser    == [kind |-> "guest", isGuest |-> TRUE]

\* isGuest: user?.isGuest || false
isGuest(user) == user # None /\ user[1].isGuest

\* The values navigateTo is called with.
Routes == {"home", "auth", "analysis", "profile", "results", "dashboard"}

\* renderPage: the switch over currentRoute.
renderPage(currentRoute, user) ==
    CASE currentRoute = "home"     -> "HomePage"
      [] currentRoute = "auth"     -> "AuthPage"
      [] currentRoute = "analysis" -> "AnalysisPage"
      [] currentRoute = "profile"  -> IF user # None THEN "ProfilePage" ELSE "AuthPage"
      [] currentRoute = "results"  -> "ResultsPage"
      [] OTHER                     -> "HomePage"

\* The page that names the route in its <Navigation currentRoute=...>.
pageOfRoute(route) ==
    CASE route = "home"      -> "HomePage"
      [] route = "auth"      -> "AuthPage"
      [] route = "analysis"  -> "AnalysisPage"
      [] route = "profile"   -> "ProfilePage"
      [] route = "results"   -> "ResultsPage"
      [] route = "dashboard" -> "DashboardPage"

\* The routes the controls of Navigation lead to.
navigationTargets(user) ==
    {"home", "analysis", "results"}
    \cup (IF user # None THEN {"profile", "results"} ELSE {"auth"})

\* The routes the buttons of a page lead to, Navigation apart.
pageTargets(pageName, user) ==
    CASE pageName = "HomePage" ->
             {"analysis"} \cup (IF user = None THEN {"auth"} ELSE {})
      [] pageName = "AnalysisPage" ->
             {"dashboard"} \cup (IF isGuest(user) THEN {"auth"} ELSE {})
      [] pageName = "ResultsPage" ->
             {"analysis"} \cup (IF isGuest(user) THEN {"auth"} ELSE {})
      [] OTHER -> {}

NoOperation == [method |-> "none", pc |-> "idle"]

\* Sign-in methods that call Firebase, and those that wait for a timer.
FirebaseMethods == {"signin", "signup", "google"}
TimerMethods == {"github", "guest", "reset"}

InitialAuth(currentUser, guestSession) ==
    [ user          |-> None,
      isLoading     |-> TRUE,
      guestSession  |-> guestSession,
      currentUser   |-> currentUser,
      ready         |-> FALSE,
      notifications |-> <<>>,
      signIn        |-> NoOperation,
      signOut       |-> "idle",
      last          |-> "none" ]

InitialRouter == [currentRoute |-> "home"]

InitApp ==
    /\ IdleRun /\ IdleCalls /\ IdleFns /\ validation = None /\ IdlePage
    /\ \E currentUser \in {None, Some(FirebaseUser)},
          guestSession \in {None, Some(GuestUser)} :
           auth = InitialAuth(currentUser, guestSession)
    /\ router = InitialRouter

\* The page on the screen.
ShownPage == renderPage(router.currentRoute, auth.user)

\* No callback of the listener and no continuation of a settled promise is
\* waiting: the microtasks have run, the next event can be handled.
Drained ==
    /\ auth.notifications = <<>>
    /\ auth.signIn.pc # "resolved"
    /\ auth.signOut # "resolved"

\* The callback given to onAuthStateChanged.
listenerCallback(a, firebaseUser) ==
    [a EXCEPT !.user = IF firebaseUser # None THEN Some(FirebaseUser)
                       ELSE a.guestSession,
              !.isLoading = FALSE]

\* What Firebase does with its listeners when the current user becomes
\* next: a call is queued when the user changed.
notify(a, next) ==
    [a EXCEPT !.currentUser = next,
              !.notifications = IF a.currentUser = next THEN a.notifications
                                ELSE Append(a.notifications, next)]

\* Firebase has read the persisted session: the first call of the listener.
InitialNotification ==
    /\ ~auth.ready /\ Drained
    /\ auth' = [listenerCallback(auth, auth.currentUser) EXCEPT !.ready = TRUE]
    /\ UNCHANGED <<img, pc, acc, result, hb, risk, callVars, fnVars, validation, pageVars, router>>

\* A queued call of the listener runs.
ListenerFires ==
    /\ auth.notifications # <<>>
    /\ auth' = [listenerCallback(auth, Head(auth.notifications))
                   EXCEPT !.notifications = Tail(auth.notifications)]
    /\ UNCHANGED <<img, pc, acc, result, hb, risk, callVars, fnVars, validation, pageVars, router>>

\* A link of Navigation or a button of the page shown.
Navigate ==
    /\ Drained
    /\ \E route \in navigationTargets(auth.user) \cup pageTargets(ShownPage, auth.user) :
           router' = [router EXCEPT !.currentRoute = route]
    /\ UNCHANGED <<img, pc, acc, result, hb, risk, callVars, fnVars, validation, pageVars, auth>>

\* handleSubmit, handleSocialAuth and handleGuestMode of AuthPage up to their
\* await: signIn, signUp, signInWithGoogle, signInWithGithub and
\* signInAsGuest set isLoading, resetPassword does not.  The controls are
\* disabled while isLoading.
StartSignIn ==
    /\ Drained
    /\ ShownPage = "AuthPage"
    /\ ~auth.isLoading
    /\ auth.signIn = NoOperation
    /\ \E method \in FirebaseMethods \cup TimerMethods :
           auth' = [auth EXCEPT !.isLoading = (method # "reset"),
                                !.signIn = [method |-> method, pc |-> "awaiting"]]
    /\ UNCHANGED <<img, pc, acc, result, hb, risk, callVars, fnVars, validation, pageVars, router>>

\* The call of Firebase succeeds: the current user is set and the listener
\* notified; the promise that signIn awaits is resolved.
FirebaseSignInResolves ==
    /\ Drained /\ auth.ready
    /\ auth.signIn.pc = "awaiting" /\ auth.signIn.method \in FirebaseMethods
    /\ auth' = [notify(auth, Some(FirebaseUser)) EXCEPT !.signIn.pc = "resolved"]
    /\ UNCHANGED <<img, pc, acc, result, hb, risk, callVars, fnVars, validation, pageVars, router>>

\* finally of signIn, signUp or signInWithGoogle, then the handler of
\* AuthPage goes on after its await: onNavigate('dashboard').
SignInContinues ==
    /\ auth.signIn.pc = "resolved"
    /\ auth' = [auth EXCEPT !.isLoading = FALSE,
                            !.signIn = NoOperation,
                            !.last = "signIn"]
    /\ router' = [router EXCEPT !.currentRoute = "dashboard"]
    /\ UNCHANGED <<img, pc, acc, result, hb, risk, callVars, fnVars, validation, pageVars>>

\* The call of Firebase fails: catch and finally of the sign-in function,
\* then the catch of the handler of AuthPage (a toast, no navigation).
FirebaseSignInRejects ==
    /\ Drained /\ auth.ready
    /\ auth.signIn.pc = "awaiting" /\ auth.signIn.method \in FirebaseMethods
    /\ auth' = [auth EXCEPT !.isLoading = FALSE,
                            !.signIn = NoOperation,
                            !.last = "signInFailed"]
    /\ UNCHANGED <<img, pc, acc, result, hb, risk, callVars, fnVars, validation, pageVars, router>>

\* The timer of signInWithGithub, signInAsGuest or resetPassword fires; the
\* function and then the handler of AuthPage run to their end.
TimerFires ==
    /\ Drained
    /\ auth.signIn.pc = "awaiting" /\ auth.signIn.method \in TimerMethods
    /\ IF auth.signIn.method = "github"
       THEN /\ auth' = [auth EXCEPT !.user = Some(GithubUser),
                                    !.isLoading = FALSE,
                                    !.signIn = NoOperation,
                                    !.last = "signIn"]
            /\ router' = [router EXCEPT !.currentRoute = "dashboard"]
       ELSE IF auth.signIn.method = "guest"
       THEN /\ auth' = [auth EXCEPT !.user = Some(GuestUser),
                                    !.guestSession = Some(GuestUser),
                                    !.isLoading = FALSE,
                                    !.signIn = NoOperation,
                                    !.last = "signIn"]
            /\ router' = [router EXCEPT !.currentRoute = "analysis"]
       ELSE /\ auth' = [auth EXCEPT !.signIn = NoOperation, !.last = "reset"]
            /\ router' = router
    /\ UNCHANGED <<img, pc, acc, result, hb, risk, callVars, fnVars, validation, pageVars>>

\* handleSignOut of Navigation, shown with a user: signOut up to its await.
StartSignOut ==
    /\ Drained
    /\ auth.user # None
    /\ auth.signOut = "idle"
    /\ auth' = [auth EXCEPT !.isLoading = TRUE, !.signOut = "awaiting"]
    /\ UNCHANGED <<img, pc, acc, result, hb, risk, callVars, fnVars, validation, pageVars, router>>

\* firebaseSignOut succeeds: Firebase has no current user any more and
\* notifies the listener if it had one.
SignOutResolves ==
    /\ Drained /\ auth.ready
    /\ auth.signOut = "awaiting"
    /\ auth' = [notify(auth, None) EXCEPT !.signOut = "resolved"]
    /\ UNCHANGED <<img, pc, acc, result, hb, risk, callVars, fnVars, validation, pageVars, router>>

\* Mutant: the guest session is left in the session storage.
signedOutKeepingSession(a) ==
    [a EXCEPT !.user = None,
              !.isLoading = FALSE,
              !.signOut = "idle",
              !.last = "signOut"]

\* The state signOut leaves after its await: setUser(null), removeItem,
\* finally.
signedOut(a) ==
    [a EXCEPT !.user = None,
              !.guestSession = None,
              !.isLoading = FALSE,
              !.signOut = "idle",
              !.last = "signOut"]

\* The rest of signOut, then handleSignOut goes on: onNavigate('home').
SignOutContinues ==
    /\ auth.signOut = "resolved"
    /\ auth' = signedOut(auth)
    /\ router' = [router EXCEPT !.currentRoute = "home"]
    /\ UNCHANGED <<img, pc, acc, result, hb, risk, callVars, fnVars, validation, pageVars>>

\* firebaseSignOut fails: catch and finally of signOut, which throws; the
\* catch of handleSignOut logs the error.
SignOutRejects ==
    /\ Drained /\ auth.ready
    /\ auth.signOut = "awaiting"
    /\ auth' = [auth EXCEPT !.isLoading = FALSE,
                            !.signOut = "idle",
                            !.last = "signOutThrew"]
    /\ UNCHANGED <<img, pc, acc, result, hb, risk, callVars, fnVars, validation, pageVars, router>>

NextApp ==
    \/ InitialNotification
    \/ ListenerFires
    \/ Navigate
    \/ StartSignIn
    \/ FirebaseSignInResolves
    \/ SignInContinues
    \/ FirebaseSignInRejects
    \/ TimerFires
    \/ StartSignOut
    \/ SignOutResolves
    \/ SignOutContinues
    \/ SignOutRejects

SpecApp == InitApp /\ [][NextApp]_vars

\* The page a route stands for: the page that names it, and for the profile
\* route without a user the auth page.
ownPage(route, user) ==
    IF route = "profile" /\ user = None THEN "AuthPage" ELSE pageOfRoute(route)

\* C22: every route a page navigates to is rendered by the Router as that
\* route's own page: after a successful sign-in, sign-up or social sign-in on
\* the auth page the dashboard page is shown, and the profile page is shown
\* only while a user is signed in.
C22_RouteRenderedAsOwnPage ==
    ShownPage = ownPage(router.currentRoute, auth.user)

\* The step in which signOut returns, and the one in which it throws.
SignOutCompletes == auth.signOut = "resolved" /\ auth'.signOut = "idle"
SignOutThrows == auth.signOut = "awaiting" /\ auth'.signOut = "idle"

\* signOut was the last operation to complete and every queued call of the
\* listener has run.
SettledAfterSignOut == auth.last = "signOut" /\ Drained

\* C27: when signOut completes successfully, and again once the listener
\* callback has run if it runs after the rest of signOut, user is null,
\* isGuest is false, no guest session remains in the session storage and
\* isLoading is false; if the sign-out call fails, signOut throws and leaves
\* user and the guest session unchanged.
C27_SignOutClearsUserAndSession ==
    /\ [][SignOutCompletes
            => /\ auth'.user = None
               /\ ~isGuest(auth'.user)
               /\ auth'.guestSession = None
               /\ auth'.isLoading = FALSE]_vars
    /\ [][SignOutThrows
            => /\ auth'.last = "signOutThrew"
               /\ auth'.user = auth.user
               /\ auth'.guestSession = auth.guestSession]_vars
    /\ [](SettledAfterSignOut
            => /\ auth.user = None
               /\ ~isGuest(auth.user)
               /\ auth.guestSession = None
               /\ (auth.signIn = NoOperation => auth.isLoading = FALSE))

\* C27 witness: a Firebase user signed out and the rest of signOut ran
\* before the callback of the listener, which is still queued.
C27_Witness ==
    /\ auth.last = "signOut"
    /\ auth.notifications = <<None>>
    /\ auth.user = None /\ auth.guestSession = None /\ auth.isLoading = FALSE

====
